---- MODULE Spec2Model ----
(***************************************************************************)
(* A model of the chess rules core of lc0 (src/chess/board.cc and          *)
(* src/chess/bitboard.h) as the source stands: a three-layer BitBoard      *)
(* (lower, middle, upper word), BoardSquare as an 8-bit number, Move as a  *)
(* packed 16-bit number, the magic attack tables, FEN parsing, move        *)
(* generation, king-attack analysis, legality filtering and ApplyMove.     *)
(*                                                                         *)
(* A BitBoard is the set of its set bits, bit i of the lower word being    *)
(* the number i, of the middle word 64+i and of the upper word 128+i.      *)
(* A 64-bit integer is the set of its set bit positions 0..63.             *)
(***************************************************************************)
EXTENDS Integers, Sequences, FiniteSets, TLC

VARIABLES
    shl_wraps,    \* build: 1ULL << pos with pos >= 64 wraps the count (TRUE) or yields 0
    oob,          \* build: the BitBoard read past the end of a one-entry table
    magic_ready,  \* InitializeMagicBitboards has run
    board,        \* the ChessBoard object
    pc,           \* the call made last: "new", "threw", "ready", "generated", "hung",
                  \* "applied", "decoded", "decode threw"; for a Move its member
    fen,          \* the index in Fens of the string given to SetFromFen, 0 if none
    moves,        \* what the last GenerateLegalMoves returned
    last_info,    \* the KingAttackInfo of the last GenerateLegalMoves
    prev,         \* the board as it was before the last ApplyMove
    last_move,    \* the move given to the last ApplyMove
    last_ret,     \* what the last ApplyMove returned
    ply,          \* moves applied since SetFromFen
    legal_play,   \* every move applied so far came from GenerateLegalMoves
    mv,           \* a Move object: its data_
    thr           \* per thread: the attack query it is running and its locals

vars ==
    <<shl_wraps, oob, magic_ready, board, pc, fen, moves, last_info, prev,
      last_move, last_ret, ply, legal_play, mv, thr>>

\* ------------------------------------------------------------------ bounds

MaxPly == 2

\* ------------------------------------------------------------ number helpers

U8(x) == x % 256
U16(x) == x % 65536

Pow2(n) == 2 ^ n

Abs(x) == IF x < 0 THEN -x ELSE x

Min2(a, b) == IF a < b THEN a ELSE b
Max2(a, b) == IF a > b THEN a ELSE b

\* F applied to the value of x, x being evaluated once.
With(x, F(_)) == CHOOSE r \in {F(v) : v \in {x}} : TRUE

\* ------------------------------------------------------------- BoardSquare

\* BoardSquare(int row, int col, int layer): 64*layer + row*8 + col, kept in a uint8.
BoardSquare3(r, c, l) == U8(64 * l + r * 8 + c)

\* BoardSquare(int row, int col): the middle layer is assumed.
BoardSquare2(r, c) == U8(64 + r * 8 + c)

row(sq) == sq \div 8
col(sq) == sq % 8
layer(sq) == sq % 64

\* The square with its column mirrored: square_ ^ 0b000111.
SquareMirrorColumn(sq) == sq - (sq % 8) + (7 - (sq % 8))

\* BoardSquare::Mirror: square_ ^ 0b111000.
SquareMirror(sq) ==
    LET r == (sq \div 8) % 8
    IN  sq - 8 * r + 8 * (7 - r)

IsValid(r, c) == r >= 0 /\ c >= 0 /\ r < 8 /\ c < 8

\* ---------------------------------------------------------------- BitBoard

Squares == 0..191
EmptyBB == {}

BitBoard3(lo, mi, up) == lo \cup {64 + i : i \in mi} \cup {128 + i : i \in up}

board_lower_(b) == {s \in b : s < 64}
board_middle_(b) == {s - 64 : s \in {t \in b : t >= 64 /\ t < 128}}
board_upper_(b) == {s - 128 : s \in {t \in b : t >= 128}}

\* The bit that set, reset and get address for position pos: the word is picked
\* by pos < 64, pos < 128, else; the bit is 1 << pos, a shift by 64 or more for
\* the middle and upper word.
BitOf(pos, wr) ==
    IF pos < 64 THEN {pos}
    ELSE IF ~wr THEN {}
    ELSE IF pos < 128 THEN {64 + (pos % 64)}
    ELSE {128 + (pos % 64)}

BBset(b, pos) == b \cup BitOf(pos, shl_wraps)
BBreset(b, pos) == b \ BitOf(pos, shl_wraps)
BBget(b, pos) == BitOf(pos, shl_wraps) \cap b # {}
BBset_if(b, pos, cond) == IF cond THEN BBset(b, pos) ELSE b

intersects(a, b) == a \cap b # {}

\* BitBoard::Mirror: the bytes of each word are reversed, so row r becomes 7 - r
\* inside each layer.
BBMirror(b) == {64 * (s \div 64) + 8 * (7 - ((s % 64) \div 8)) + (s % 8) : s \in b}

\* begin()/end(): the iterator runs over board_lower_ only, lowest bit first.
RECURSIVE IterFrom(_, _)
IterFrom(b, i) ==
    IF i > 63 THEN <<>>
    ELSE (IF i \in b THEN <<i>> ELSE <<>>) \o IterFrom(b, i + 1)

Iterate(b) == IterFrom(b, 0)

\* 64-bit addition, carries included, overflow dropped.
RECURSIVE AddBits(_, _, _, _)
AddBits(a, b, i, c) ==
    IF i = 64 THEN {}
    ELSE LET n == (IF i \in a THEN 1 ELSE 0) + (IF i \in b THEN 1 ELSE 0) + c
         IN  (IF n % 2 = 1 THEN {i} ELSE {}) \cup AddBits(a, b, i + 1, n \div 2)

Add64(a, b) == IF a \cap b = {} THEN a \cup b ELSE AddBits(a, b, 0, 0)

\* x * 2^k in 64 bits.
Shl64(x, k) == {i + k : i \in {j \in x : j + k < 64}}

\* BitBoard::as_int: board_lower_ + 64*board_middle_ + 128*board_upper_.
as_int(b) ==
    Add64(Add64(board_lower_(b), Shl64(board_middle_(b), 6)), Shl64(board_upper_(b), 7))

\* _pext_u64(x, mask) as a number: bit k of the result is the bit of x at the
\* k-th set bit of mask.
Pext(x, mask) ==
    LET hit == x \cap mask
        RECURSIVE Sum(_)
        Sum(S) == IF S = {} THEN 0
                  ELSE LET m == CHOOSE e \in S : TRUE
                       IN  Pow2(Cardinality({j \in mask : j < m})) + Sum(S \ {m})
    IN  Sum(hit)

\* kPawnMask: rows 1..6 of every word.
kPawnMask == {s \in Squares : (s % 64) \div 8 \in 1..6}

\* ---------------------------------------------------------------------- Move

PromoNone == 0
PromoQueen == 1
PromoRook == 2
PromoBishop == 3
PromoKnight == 4

kPromotions == <<PromoQueen, PromoRook, PromoBishop, PromoKnight>>

\* Move(from, to): to + (from << 6) in a uint16.
Move2(from, to) == U16(to + from * 64)
\* Move(from, to, promotion).
Move3(from, to, promo) == U16(to + from * 64 + promo * 4096)

MoveTo(m) == m % 64
\* from() read without kFromMask.
FromUnmasked(m) == m \div 64
MoveFrom(m) == (m \div 64) % 64
MovePromotion(m) == (m \div 4096) % 8

\* a | b and a & b on non-negative integers.
RECURSIVE BitOr(_, _)
BitOr(a, b) ==
    IF a = 0 THEN b ELSE IF b = 0 THEN a
    ELSE (IF a % 2 = 1 \/ b % 2 = 1 THEN 1 ELSE 0) + 2 * BitOr(a \div 2, b \div 2)
RECURSIVE BitAnd(_, _)
BitAnd(a, b) ==
    IF a = 0 \/ b = 0 THEN 0
    ELSE (IF a % 2 = 1 /\ b % 2 = 1 THEN 1 ELSE 0) + 2 * BitAnd(a \div 2, b \div 2)

\* Move::Masks.
kToMask == 63
kFromMask == 4032
kPromoMask == 28672

\* SetTo, SetFrom, SetPromotion: data_ = (data_ & ~mask) | field.
SetTo(m, to) == U16(BitOr(m - BitAnd(m, kToMask), to))
SetFrom(m, from) == U16(BitOr(m - BitAnd(m, kFromMask), from * 64))
SetPromotion(m, promo) == U16(BitOr(m - BitAnd(m, kPromoMask), U8(promo) * 4096))

\* ---------------------------------------------------------------- constants

RANK_1 == 0
RANK_3 == 2
RANK_4 == 3
RANK_5 == 4
RANK_6 == 5
RANK_8 == 7
FILE_A == 0
FILE_C == 2
FILE_E == 4
FILE_G == 6
FILE_H == 7

\* The middle-layer squares of the first rank ("64 is a1m").
A1M == 64
C1M == 66
D1M == 67
E1M == 68
F1M == 69
G1M == 70
H1M == 71

kEnPassantLayer == 1
kCastleLayer == 1

\* --------------------------------------------------------------- ChessBoard

NoCastlings ==
    [we_can_00 |-> FALSE, we_can_000 |-> FALSE,
     they_can_00 |-> FALSE, they_can_000 |-> FALSE,
     queenside_rook |-> 0, kingside_rook |-> 0]

\* ChessBoard::Clear: every byte of the object is zero.
ClearBoard ==
    [our_pieces_ |-> EmptyBB, their_pieces_ |-> EmptyBB, rooks_ |-> EmptyBB,
     bishops_ |-> EmptyBB, pawns_ |-> EmptyBB, our_king_ |-> 0, their_king_ |-> 0,
     castlings_ |-> NoCastlings, flipped_ |-> FALSE]

\* Castlings::Mirror: the two sides' rights are exchanged.
CastlingsMirror(c) ==
    [c EXCEPT !.we_can_00 = c.they_can_00, !.we_can_000 = c.they_can_000,
              !.they_can_00 = c.we_can_00, !.they_can_000 = c.we_can_000]

BoardMirror(b) ==
    [our_pieces_ |-> BBMirror(b.their_pieces_),
     their_pieces_ |-> BBMirror(b.our_pieces_),
     rooks_ |-> BBMirror(b.rooks_),
     bishops_ |-> BBMirror(b.bishops_),
     pawns_ |-> BBMirror(b.pawns_),
     our_king_ |-> SquareMirror(b.their_king_),
     their_king_ |-> SquareMirror(b.our_king_),
     castlings_ |-> CastlingsMirror(b.castlings_),
     flipped_ |-> ~b.flipped_]

\* ChessBoard::rooks(): rooks that are not queens.
RooksOnly(b) == b.rooks_ \ b.bishops_

\* ---------------------------------------------------------------- characters

\* The characters the input strings are made of, with their codes.
Ascii ==
    [c \in {"/", "-", "0", "1", "2", "3", "4", "5", "6", "7", "8", "9"} |->
        CASE c = "/" -> 47 [] c = "-" -> 45 [] c = "0" -> 48 [] c = "1" -> 49
          [] c = "2" -> 50 [] c = "3" -> 51 [] c = "4" -> 52 [] c = "5" -> 53
          [] c = "6" -> 54 [] c = "7" -> 55 [] c = "8" -> 56 [] c = "9" -> 57]
    @@
    [c \in {"A", "B", "C", "D", "E", "F", "G", "H", "K", "N", "P", "Q", "R", "X"} |->
        CASE c = "A" -> 65 [] c = "B" -> 66 [] c = "C" -> 67 [] c = "D" -> 68
          [] c = "E" -> 69 [] c = "F" -> 70 [] c = "G" -> 71 [] c = "H" -> 72
          [] c = "K" -> 75 [] c = "N" -> 78 [] c = "P" -> 80 [] c = "Q" -> 81
          [] c = "R" -> 82 [] c = "X" -> 88]
    @@
    [c \in {"a", "b", "c", "d", "e", "f", "g", "h", "k", "n", "p", "q", "r", "x"} |->
        CASE c = "a" -> 97 [] c = "b" -> 98 [] c = "c" -> 99 [] c = "d" -> 100
          [] c = "e" -> 101 [] c = "f" -> 102 [] c = "g" -> 103 [] c = "h" -> 104
          [] c = "k" -> 107 [] c = "n" -> 110 [] c = "p" -> 112 [] c = "q" -> 113
          [] c = "r" -> 114 [] c = "x" -> 120]

isdigit(c) == Ascii[c] >= 48 /\ Ascii[c] <= 57
isupper(c) == Ascii[c] >= 65 /\ Ascii[c] <= 90
islower(c) == Ascii[c] >= 97 /\ Ascii[c] <= 122
\* std::tolower, as a code.
tolower(c) == IF isupper(c) THEN Ascii[c] + 32 ELSE Ascii[c]

\* n copies of the characters cs.
RECURSIVE Rep(_, _)
Rep(n, cs) == IF n = 0 THEN <<>> ELSE cs \o Rep(n - 1, cs)

\* ------------------------------------------------------------------- FEN

\* A FEN string after the stream has split it at white space: the board field,
\* the side to move, the castling field and the en-passant field.
Fen(b, who, cas, ep) == [board |-> b, who_to_move |-> who, castlings |-> cas, en_passant |-> ep]

Dash == <<"-">>

\* ChessBoard::kStartposFen.
kStartposFen ==
    Fen(Rep(8, <<"8", "/">>)
          \o <<"r", "n", "b", "q", "k", "b", "n", "r", "/">>
          \o Rep(8, <<"p">>) \o <<"/">>
          \o Rep(4, <<"8", "/">>)
          \o Rep(8, <<"P">>) \o <<"/">>
          \o <<"R", "N", "B", "Q", "K", "B", "N", "R">>
          \o Rep(8, <<"/", "8">>),
        "w", <<"K", "Q", "k", "q">>, Dash)

\* The position of TEST(EncodePositionForNN, EncodeEndGameFormat1).
kEndGameFen ==
    Fen(Rep(8, <<"8", "/">>)
          \o <<"3", "r", "4", "/", "4", "k", "3", "/", "8", "/", "1", "K", "6">>
          \o Rep(12, <<"/", "8">>),
        "w", Dash, Dash)

\* The parser's state while it reads the board field.
ParseState(b) == [row |-> 7 * 3, col |-> 0, b |-> b, err |-> "", left_rook |-> FILE_A, right_rook |-> FILE_H]

\* One character of the board field (the body of the loop over `board`).
BoardChar(st, c) ==
    IF c = "/" THEN
        IF st.row - 1 < 0
        THEN [st EXCEPT !.row = st.row - 1, !.err = "too many rows"]
        ELSE [st EXCEPT !.row = st.row - 1, !.col = 0]
    ELSE IF isdigit(c) THEN [st EXCEPT !.col = st.col + (Ascii[c] - 48)]
    ELSE IF st.col >= 8 THEN [st EXCEPT !.err = "too many columns"]
    ELSE
      LET l == 2 - (st.row \div 3)
          r == st.row % 7
          sq == BoardSquare3(r, st.col, l)
          b0 == st.b
          b1 == IF isupper(c)
                THEN [b0 EXCEPT !.our_pieces_ = BBset(b0.our_pieces_, sq)]
                ELSE [b0 EXCEPT !.their_pieces_ = BBset(b0.their_pieces_, sq)]
          s1 == [st EXCEPT !.row = r, !.b = b1]
      IN  IF c = "K" THEN [s1 EXCEPT !.b.our_king_ = sq, !.col = st.col + 1]
          ELSE IF c = "k" THEN [s1 EXCEPT !.b.their_king_ = sq, !.col = st.col + 1]
          ELSE IF c \in {"R", "r"}
            THEN [s1 EXCEPT !.b.rooks_ = BBset(b1.rooks_, sq), !.col = st.col + 1]
          ELSE IF c \in {"B", "b"}
            THEN [s1 EXCEPT !.b.bishops_ = BBset(b1.bishops_, sq), !.col = st.col + 1]
          ELSE IF c \in {"Q", "q"}
            THEN [s1 EXCEPT !.b.rooks_ = BBset(b1.rooks_, sq),
                            !.b.bishops_ = BBset(b1.bishops_, sq), !.col = st.col + 1]
          ELSE IF c \in {"P", "p"}
            THEN IF r = 7 \/ r = 0
                 THEN [s1 EXCEPT !.err = "pawn in first/last row"]
                 ELSE [s1 EXCEPT !.b.pawns_ = BBset(b1.pawns_, sq), !.col = st.col + 1]
          ELSE IF c \in {"N", "n"} THEN [s1 EXCEPT !.col = st.col + 1]
          ELSE [s1 EXCEPT !.err = "bad symbol"]

RECURSIVE ParseBoard(_, _, _)
ParseBoard(cs, i, st) ==
    IF i > Len(cs) \/ st.err # "" THEN st
    ELSE With(BoardChar(st, cs[i]), LAMBDA v : ParseBoard(cs, i + 1, v))

\* One character of the castling field.
CastlingChar(st, ch) ==
    LET b == st.b
        is_black == islower(ch)
        king_col == col(IF is_black THEN b.their_king_ ELSE b.our_king_)
        c == tolower(ch)
        rooks == (IF is_black THEN b.their_pieces_ ELSE b.our_pieces_) \cap RooksOnly(b)
        rank == IF is_black THEN RANK_8 ELSE RANK_1
        has(f) == BBget(rooks, BoardSquare3(rank, f, kCastleLayer))
        rights == {f \in (king_col + 1)..FILE_H : has(f)}
        right == IF rights = {} THEN king_col
                 ELSE CHOOSE f \in rights : \A g \in rights : g <= f
        lefts == {f \in FILE_A..(king_col - 1) : has(f)}
        left == IF lefts = {} THEN king_col
                ELSE CHOOSE f \in lefts : \A g \in lefts : f <= g
        set00 == IF is_black THEN [b EXCEPT !.castlings_.they_can_00 = TRUE]
                 ELSE [b EXCEPT !.castlings_.we_can_00 = TRUE]
        set000 == IF is_black THEN [b EXCEPT !.castlings_.they_can_000 = TRUE]
                  ELSE [b EXCEPT !.castlings_.we_can_000 = TRUE]
    IN  IF c = 107 THEN
            IF right = king_col
            THEN [st EXCEPT !.right_rook = right, !.err = "no kingside rook"]
            ELSE [st EXCEPT !.right_rook = right, !.b = set00]
        ELSE IF c = 113 THEN
            IF left = king_col
            THEN [st EXCEPT !.left_rook = left, !.err = "no queenside rook"]
            ELSE [st EXCEPT !.left_rook = left, !.b = set000]
        ELSE IF c >= 97 /\ c <= 104 THEN
            IF c - 97 < king_col
            THEN [st EXCEPT !.left_rook = c - 97, !.b = set000]
            ELSE [st EXCEPT !.right_rook = c - 97, !.b = set00]
        ELSE [st EXCEPT !.err = "unexpected casting symbol"]

RECURSIVE ParseCastlings(_, _, _)
ParseCastlings(cs, i, st) ==
    IF st.err # "" THEN st
    ELSE IF i > Len(cs)
      THEN [st EXCEPT !.b.castlings_.queenside_rook = st.left_rook,
                      !.b.castlings_.kingside_rook = st.right_rook]
    ELSE With(CastlingChar(st, cs[i]), LAMBDA v : ParseCastlings(cs, i + 1, v))

\* The en-passant field: BoardSquare(en_passant) is built with the two-argument
\* constructor, then its row() is compared with RANK_3 and RANK_6.
ParseEnPassant(ep, st) ==
    LET square == BoardSquare2(Ascii[ep[2]] - 49, Ascii[ep[1]] - 97)
    IN  IF row(square) # RANK_3 /\ row(square) # RANK_6
        THEN [st EXCEPT !.err = "wrong en passant rank"]
        ELSE [st EXCEPT !.b.pawns_ =
                BBset(st.b.pawns_,
                      BoardSquare3(IF row(square) = RANK_3 THEN RANK_1 ELSE RANK_8,
                                   col(square), kEnPassantLayer))]

ParseWho(who, st) ==
    IF who \in {"b", "B"} THEN [st EXCEPT !.b = BoardMirror(st.b)]
    ELSE IF who \notin {"w", "W"} THEN [st EXCEPT !.err = "side to move"]
    ELSE st

\* ChessBoard::SetFromFen: the object as the call leaves it, and the exception
\* if one was thrown (err is "" when the call returned).
SetFromFen(f) ==
    LET Castlings(s1) == IF s1.err # "" \/ f.castlings = Dash THEN s1
                         ELSE ParseCastlings(f.castlings, 1, s1)
        EnPassant(s2) == IF s2.err # "" \/ f.en_passant = Dash THEN s2
                         ELSE ParseEnPassant(f.en_passant, s2)
        Who(s3) == IF s3.err # "" THEN s3 ELSE ParseWho(f.who_to_move, s3)
        Result(s4) == [b |-> s4.b, err |-> s4.err]
    IN  With(ParseBoard(f.board, 1, ParseState(ClearBoard)),
             LAMBDA s1 : With(Castlings(s1),
                 LAMBDA s2 : With(EnPassant(s2),
                     LAMBDA s3 : With(Who(s3), Result))))

\* ------------------------------------------------------------ static tables

kKingMoves ==
    << <<-1, -1, 1>>, <<-1, -1, -1>>, <<-1, 0, 1>>, <<-1, 0, -1>>,
       <<-1, 1, 1>>, <<-1, 1, -1>>, <<0, -1, 1>>, <<0, -1, -1>>,
       <<0, 1, 1>>, <<0, 1, -1>>, <<1, -1, 1>>, <<1, -1, -1>>,
       <<1, 0, 1>>, <<1, 0, -1>>, <<1, 1, 1>>, <<1, 1, -1>> >>

kRookDirections ==
    << <<1, 0, 0>>, <<-1, 0, 0>>, <<0, 1, 0>>, <<0, -1, 0>>, <<0, 0, 1>>, <<0, 0, -1>> >>

kBishopDirections ==
    << <<1, 1, 0>>, <<-1, 1, 0>>, <<1, -1, 0>>, <<-1, -1, 0>>,
       <<1, -1, 1>>, <<-1, -1, 1>>, <<1, -1, -1>>, <<-1, -1, -1>> >>

\* The only entry of kRookAttacks: BitBoard(0, 0x01010101010101FE, 0).
kRookAttacks0 == BitBoard3({}, (1..7) \cup {8 * r : r \in 1..7}, {})
\* The only entry of kBishopAttacks: BitBoard(0, 0x8040201008040200, 0).
kBishopAttacks0 == BitBoard3({}, {9 * k : k \in 1..7}, {})
\* The only entry of kKnightAttacks: BitBoard(0, 0x0000000000020400, 0).
kKnightAttacks0 == BitBoard3({}, {10, 17}, {})
\* The only entry of kPawnAttacks: BitBoard(0, 0x0000000000000200, 0).
kPawnAttacks0 == BitBoard3({}, {9}, {})

\* The values the model lets a read past the end of a one-entry array return:
\* zeroed memory, the entry of the array laid out next, and the bytes of
\* kPromotions (1, 2, 3, 4) read as a lower word.
OobValues == {EmptyBB, kBishopAttacks0, BitBoard3({0, 9, 16, 17, 26}, {}, {})}

\* table[index] of an array that holds one entry.
TableRead(entry0, index) == IF index = 0 THEN entry0 ELSE oob

\* a - square (operator-(BitBoard, BoardSquare)): every word is and-ed with
\* ~(1ULL << square_).
MinusSquare(a, sq) ==
    IF sq >= 64 /\ ~shl_wraps THEN a
    ELSE a \ {sq % 64, 64 + (sq % 64), 128 + (sq % 64)}

\* ------------------------------------------------------- magic attack tables

\* The relevant occupancy mask of one direction: squares are added until the
\* next one would leave the board.
RECURSIVE MaskRay(_, _, _, _, _)
MaskRay(r, c, dr, dc, wr) ==
    LET r1 == r + dr
        c1 == c + dc
    IN  IF ~IsValid(r1 + dr, c1 + dc) THEN {}
        ELSE BitOf(BoardSquare2(r1, c1), wr) \cup MaskRay(r1, c1, dr, dc, wr)

\* The attacks of one direction: squares are added until the edge or an
\* occupied square, that square included.
RECURSIVE AttackRay(_, _, _, _, _, _)
AttackRay(r, c, dr, dc, occupancy, wr) ==
    LET r1 == r + dr
        c1 == c + dc
        dest == BitOf(BoardSquare2(r1, c1), wr)
    IN  IF ~IsValid(r1, c1) THEN {}
        ELSE IF dest \cap occupancy # {} THEN dest
        ELSE dest \cup AttackRay(r1, c1, dr, dc, occupancy, wr)

\* BuildAttacksTable for one square: mask_, the cached occupancy squares (the
\* iteration of BitBoard(0, mask_, 0)), and the attacks stored for the
\* occupancies built from them. Only directions[0..3] are read.
SquareMagic(square, directions, wr) ==
    LET mask == UNION {MaskRay(row(square), col(square), directions[j][1],
                               directions[j][2], wr) : j \in 1..4}
        mask_ == as_int(mask)
        occupancy_squares == Iterate(BitBoard3({}, mask_, {}))
        n == Len(occupancy_squares)
        occupancy(i) == UNION {BitOf(occupancy_squares[k], wr) :
                                 k \in {j \in 1..n : (i \div Pow2(j - 1)) % 2 = 1}}
        attacks(i) == UNION {AttackRay(row(square), col(square), directions[j][1],
                                       directions[j][2], occupancy(i), wr) : j \in 1..4}
        index(i) == Pext(as_int(occupancy(i)), mask_)
    IN  [mask_ |-> mask_,
         size |-> Pow2(n),
         entries |-> [k \in 0..(Pow2(n) - 1) |->
                        LET is == {i \in 0..(Pow2(n) - 1) : index(i) = k}
                        IN  IF is = {} THEN EmptyBB
                            ELSE attacks(CHOOSE i \in is : \A j \in is : j <= i)]]

\* rook_magic_params / rook_attacks_table and the bishop ones after
\* InitializeMagicBitboards, for either outcome of the over-wide shift.
RookMagicWrap == [sq \in 0..63 |-> SquareMagic(sq, kRookDirections, TRUE)]
RookMagicZero == [sq \in 0..63 |-> SquareMagic(sq, kRookDirections, FALSE)]
BishopMagicWrap == [sq \in 0..63 |-> SquareMagic(sq, kBishopDirections, TRUE)]
BishopMagicZero == [sq \in 0..63 |-> SquareMagic(sq, kBishopDirections, FALSE)]

rook_magic_params == IF shl_wraps THEN RookMagicWrap ELSE RookMagicZero
bishop_magic_params == IF shl_wraps THEN BishopMagicWrap ELSE BishopMagicZero

\* attacks_table_[index] for a square: the table of a square starts where the
\* tables of the squares before it end, and the static array is zero past the
\* last one.
RECURSIVE TableLookup(_, _, _)
TableLookup(params, sq, index) ==
    IF sq > 63 THEN EmptyBB
    ELSE IF index < params[sq].size THEN params[sq].entries[index]
    ELSE With(index - params[sq].size, LAMBDA v : TableLookup(params, sq + 1, v))

\* GetRookAttacks / GetBishopAttacks (the _pext_u64 build). Squares past 63
\* index the parameter array out of bounds.
GetRookAttacks(square, pieces) ==
    IF square >= 64 THEN oob
    ELSE With(Pext(as_int(pieces), rook_magic_params[square].mask_),
              LAMBDA index : TableLookup(rook_magic_params, square, index))

GetBishopAttacks(square, pieces) ==
    IF square >= 64 THEN oob
    ELSE With(Pext(as_int(pieces), bishop_magic_params[square].mask_),
              LAMBDA index : TableLookup(bishop_magic_params, square, index))

\* ------------------------------------------------------------ IsUnderAttack

\* their_pieces_ - their_king_ - rooks_ - bishops_ - (pawns_ & kPawnMask)
TheirKnights(b) ==
    ((MinusSquare(b.their_pieces_, b.their_king_) \ b.rooks_) \ b.bishops_)
        \ (b.pawns_ \cap kPawnMask)

IsUnderAttack(b, square) ==
    \/ /\ Abs(row(b.their_king_) - row(square)) <= 1
       /\ Abs(col(b.their_king_) - col(square)) <= 1
    \/ intersects(GetRookAttacks(square, b.our_pieces_ \cup b.their_pieces_),
                  b.their_pieces_ \cap b.rooks_)
    \/ intersects(GetBishopAttacks(square, b.our_pieces_ \cup b.their_pieces_),
                  b.their_pieces_ \cap b.bishops_)
    \/ intersects(TableRead(kPawnAttacks0, square), b.their_pieces_ \cap b.pawns_)
    \/ intersects(TableRead(kKnightAttacks0, square), TheirKnights(b))

\* ChessBoard::IsUnderCheck.
IsUnderCheck(b) == IsUnderAttack(b, b.our_king_)

\* ------------------------------------------------- GeneratePseudolegalMoves

\* The moves of a list of destinations, one Move(source, destination) each.
RECURSIVE MovesTo(_, _, _)
MovesTo(source, dests, i) ==
    IF i > Len(dests) THEN <<>>
    ELSE <<Move2(source, dests[i])>> \o MovesTo(source, dests, i + 1)

PromotionMoves(source, destination) ==
    [i \in 1..4 |-> Move3(source, destination, kPromotions[i])]

\* The loop over kKingMoves, from entry i on.
RECURSIVE KingSteps(_, _, _)
KingSteps(b, source, i) ==
    IF i > Len(kKingMoves) THEN <<>>
    ELSE LET dst_row == row(source) + kKingMoves[i][1]
             dst_col == col(source) + kKingMoves[i][2]
             destination == BoardSquare2(dst_row, dst_col)
             skip == \/ ~IsValid(dst_row, dst_col)
                     \/ BBget(b.our_pieces_, destination)
                     \/ IsUnderAttack(b, destination)
         IN  (IF skip THEN <<>> ELSE <<Move2(source, destination)>>)
                 \o KingSteps(b, source, i + 1)

walk_free(b, from, to, rook, king) ==
    \A i \in from..to :
        (i = rook \/ i = king) \/ ~(BBget(b.our_pieces_, i) \/ BBget(b.their_pieces_, i))

\* @to is not included unless it is the same with @from.
range_attacked(b, from, to) ==
    IF from = to THEN IsUnderAttack(b, from)
    ELSE IF from < to THEN \E i \in from..(to - 1) : IsUnderAttack(b, i)
    ELSE \E i \in (to + 1)..from : IsUnderAttack(b, i)

CastlingMoves(b, source) ==
    LET king == col(source)
        qrook == b.castlings_.queenside_rook
        krook == b.castlings_.kingside_rook
        q == /\ b.castlings_.we_can_000
             /\ walk_free(b, Min2(C1M, qrook), Max2(D1M, king), qrook, king)
             /\ ~range_attacked(b, king, C1M)
        k == /\ b.castlings_.we_can_00
             /\ walk_free(b, Min2(F1M, king), Max2(G1M, krook), krook, king)
             /\ ~range_attacked(b, king, G1M)
    IN  (IF q THEN <<Move2(source, BoardSquare2(RANK_1, qrook))>> ELSE <<>>)
        \o (IF k THEN <<Move2(source, BoardSquare2(RANK_1, krook))>> ELSE <<>>)

PawnForward(b, source) ==
    LET dst_row == row(source) + 1
        dst_col == col(source)
        dst_layer == layer(source)
        destination == BoardSquare3(dst_row, dst_col, dst_layer)
        rank4 == BoardSquare3(RANK_4, dst_col, dst_layer)
    IN  IF BBget(b.our_pieces_, destination) \/ BBget(b.their_pieces_, destination)
        THEN <<>>
        ELSE IF dst_row # RANK_8
          THEN <<Move2(source, destination)>>
               \o (IF /\ dst_row = RANK_3
                      /\ ~BBget(b.our_pieces_, rank4)
                      /\ ~BBget(b.their_pieces_, rank4)
                   THEN <<Move2(source, BoardSquare2(RANK_4, dst_col))>>
                   ELSE <<>>)
        ELSE PromotionMoves(source, destination)

PawnCapture(b, source, direction) ==
    LET dst_row == row(source) + 1
        dst_col == col(source) + direction
        dst_layer == layer(source)
        destination == BoardSquare2(dst_row, dst_col)
    IN  IF dst_col < 0 \/ dst_col >= 8 THEN <<>>
        ELSE IF BBget(b.their_pieces_, destination)
          THEN IF dst_row = RANK_8 THEN PromotionMoves(source, destination)
               ELSE <<Move2(source, destination)>>
        ELSE IF dst_row = RANK_6 /\ BBget(b.pawns_, BoardSquare3(RANK_8, dst_col, dst_layer))
          THEN <<Move2(source, destination)>>
        ELSE <<>>

\* The body of the loop over our_pieces_ for one source square.
PieceMoves(b, source) ==
    IF source = b.our_king_
    THEN KingSteps(b, source, 1) \o CastlingMoves(b, source)
    ELSE IF BBget(b.rooks_, source) \/ BBget(b.bishops_, source)
    THEN (IF BBget(b.rooks_, source)
          THEN With(Iterate(GetRookAttacks(source, b.our_pieces_ \cup b.their_pieces_)
                              \ b.our_pieces_),
                    LAMBDA dests : MovesTo(source, dests, 1))
          ELSE <<>>)
         \o
         (IF BBget(b.bishops_, source)
          THEN With(Iterate(GetBishopAttacks(source, b.our_pieces_ \cup b.their_pieces_)
                              \ b.our_pieces_),
                    LAMBDA dests : MovesTo(source, dests, 1))
          ELSE <<>>)
    ELSE IF BBget(b.pawns_ \cap kPawnMask, source)
    THEN PawnForward(b, source) \o PawnCapture(b, source, -1) \o PawnCapture(b, source, 1)
    ELSE With(Iterate(TableRead(kKnightAttacks0, source) \ b.our_pieces_),
              LAMBDA dests : MovesTo(source, dests, 1))

RECURSIVE MovesOfSources(_, _, _)
MovesOfSources(b, sources, i) ==
    IF i > Len(sources) THEN <<>>
    ELSE PieceMoves(b, sources[i]) \o MovesOfSources(b, sources, i + 1)

GeneratePseudolegalMoves(b) ==
    With(Iterate(b.our_pieces_), LAMBDA sources : MovesOfSources(b, sources, 1))

\* ----------------------------------------------------------------- ApplyMove

\* The lambda do_castling of ApplyMove.
do_castling(b, king_dst, rook_src, rook_dst) ==
    [b EXCEPT
       !.pawns_ = b.pawns_ \cap kPawnMask,
       !.our_pieces_ =
           BBset(BBset(BBreset(BBreset(b.our_pieces_, b.our_king_), rook_src), king_dst),
                 rook_dst),
       !.rooks_ = BBset(BBreset(b.rooks_, rook_src), rook_dst),
       !.our_king_ = king_dst]

\* ApplyMove from "Move in our pieces" on; b0 has the mover's rights already
\* reset if the king moves.
OrdinaryMove(b0, move) ==
    LET from == MoveFrom(move)
        to == MoveTo(move)
        from_row == row(from)
        from_col == col(from)
        to_row == row(to)
        to_col == col(to)
        ours == BBset(BBreset(b0.our_pieces_, from), to)
        captured == BBget(b0.their_pieces_, to)
        theirs1 == BBreset(b0.their_pieces_, to)
        rooks1 == BBreset(b0.rooks_, to)
        bishops1 == BBreset(b0.bishops_, to)
        pawns1 == BBreset(b0.pawns_, to)
        c1 == IF to = 56 + b0.castlings_.kingside_rook
              THEN [b0.castlings_ EXCEPT !.they_can_00 = FALSE] ELSE b0.castlings_
        c2 == IF to = 56 + b0.castlings_.queenside_rook
              THEN [c1 EXCEPT !.they_can_000 = FALSE] ELSE c1
        en_passant == /\ from_row = RANK_5
                      /\ BBget(pawns1, from)
                      /\ from_col # to_col
                      /\ BBget(pawns1, BoardSquare3(RANK_8, to_col, kEnPassantLayer))
        ep_victim == BoardSquare3(RANK_5, to_col, kEnPassantLayer)
        pawns2 == (IF en_passant THEN BBreset(pawns1, ep_victim) ELSE pawns1) \cap kPawnMask
        theirs2 == IF en_passant THEN BBreset(theirs1, ep_victim) ELSE theirs1
        reset_50_moves == captured \/ BBget(pawns2, from)
        b1 == [b0 EXCEPT !.our_pieces_ = ours, !.their_pieces_ = theirs2,
                         !.rooks_ = rooks1, !.bishops_ = bishops1, !.pawns_ = pawns2,
                         !.castlings_ = c2]
        promo == MovePromotion(move)
        rooksP == IF promo \in {PromoRook, PromoQueen} THEN BBset(rooks1, to) ELSE rooks1
        bishopsP == IF promo \in {PromoBishop, PromoQueen} THEN BBset(bishops1, to)
                    ELSE bishops1
        rook_leaves == from_row = RANK_1 /\ BBget(rooks1, from)
        c3 == IF rook_leaves /\ from_col = c2.queenside_rook
              THEN [c2 EXCEPT !.we_can_000 = FALSE] ELSE c2
        c4 == IF rook_leaves /\ from_col = c2.kingside_rook
              THEN [c3 EXCEPT !.we_can_00 = FALSE] ELSE c3
        rooks3 == BBreset(BBset_if(rooks1, to, BBget(rooks1, from)), from)
        bishops3 == BBreset(BBset_if(bishops1, to, BBget(bishops1, from)), from)
        pawns3 == BBreset(BBset_if(pawns2, to, BBget(pawns2, from)), from)
        ep_sq == BoardSquare2(to_row - 1, to_col)
        flag == /\ to_row - from_row = 2
                /\ BBget(pawns3, to)
                /\ intersects(TableRead(kPawnAttacks0, ep_sq), theirs2 \cap pawns3)
        pawns4 == IF flag THEN BBset(pawns3, BoardSquare3(0, to_col, kEnPassantLayer))
                  ELSE pawns3
    IN  IF from = b0.our_king_
        THEN [b |-> [b1 EXCEPT !.our_king_ = to], ret |-> reset_50_moves]
        ELSE IF to_row = RANK_8 /\ BBget(pawns2, from)
        THEN [b |-> [b1 EXCEPT !.rooks_ = rooksP, !.bishops_ = bishopsP,
                               !.pawns_ = BBreset(pawns2, from)],
              ret |-> TRUE]
        ELSE [b |-> [b1 EXCEPT !.castlings_ = c4, !.rooks_ = rooks3,
                               !.bishops_ = bishops3, !.pawns_ = pawns4],
              ret |-> reset_50_moves]

\* ChessBoard::ApplyMove: the board after the move and the returned flag.
ApplyMove(b, move) ==
    LET from == MoveFrom(move)
        to == MoveTo(move)
        from_col == col(from)
        to_col == col(to)
        king_moves == from = b.our_king_
        b0 == IF king_moves
              THEN [b EXCEPT !.castlings_.we_can_00 = FALSE, !.castlings_.we_can_000 = FALSE]
              ELSE b
        first_rank == king_moves /\ row(from) = RANK_1 /\ row(to) = RANK_1
        our_rooks == RooksOnly(b0) \cap b0.our_pieces_
    IN  IF first_rank /\ BBget(our_rooks, to)
        THEN IF to_col > from_col
             THEN [b |-> do_castling(b0, G1M, to, F1M), ret |-> FALSE]
             ELSE [b |-> do_castling(b0, C1M, to, D1M), ret |-> FALSE]
        ELSE IF first_rank /\ from_col = FILE_E /\ to_col = FILE_G
        THEN [b |-> do_castling(b0, G1M, H1M, F1M), ret |-> FALSE]
        ELSE IF first_rank /\ from_col = FILE_E /\ to_col = FILE_C
        THEN [b |-> do_castling(b0, C1M, A1M, D1M), ret |-> FALSE]
        ELSE OrdinaryMove(b0, move)

\* ------------------------------------------------------ GenerateKingAttackInfo

\* The while (true) loop of one direction, from (r, c) with the loop's locals.
\* kind is "none" (left by a break that records nothing), "pin", "attack", or
\* "hang": a direction with a zero row and column step never leaves a square
\* that holds no piece.
RECURSIVE ScanLine(_, _, _, _, _, _, _, _, _)
ScanLine(b, sliders, r, c, dr, dc, found, pinned, line) ==
    LET dst_row == r + dr
        dst_col == c + dc
        destination == BoardSquare2(dst_row, dst_col)
        ours == BBget(b.our_pieces_, destination)
        found1 == found \/ ours
        pinned1 == IF ours THEN destination ELSE pinned
        line1 == IF ~found1 THEN BBset(line, destination) ELSE line
    IN  IF ~IsValid(dst_row, dst_col) THEN [kind |-> "none", sq |-> 0, line |-> EmptyBB]
        ELSE IF ours /\ found THEN [kind |-> "none", sq |-> 0, line |-> EmptyBB]
        ELSE IF BBget(b.their_pieces_, destination)
        THEN IF BBget(sliders, destination)
             THEN IF found1 THEN [kind |-> "pin", sq |-> pinned1, line |-> EmptyBB]
                  ELSE [kind |-> "attack", sq |-> 0, line |-> line1]
             ELSE [kind |-> "none", sq |-> 0, line |-> EmptyBB]
        ELSE IF dr = 0 /\ dc = 0 /\ ~ours
        THEN [kind |-> "hang", sq |-> 0, line |-> EmptyBB]
        ELSE ScanLine(b, sliders, dst_row, dst_col, dr, dc, found1, pinned1, line1)

\* The loop over the directions, from entry i on, updating the info.
RECURSIVE ScanDirections(_, _, _, _, _)
ScanDirections(b, sliders, directions, i, info) ==
    IF i > Len(directions) \/ info.hang THEN info
    ELSE LET res == ScanLine(b, sliders, row(b.our_king_), col(b.our_king_),
                             directions[i][1], directions[i][2], FALSE, 0, EmptyBB)
             info1 ==
                 CASE res.kind = "pin" ->
                        [info EXCEPT !.pinned_pieces_ = BBset(info.pinned_pieces_, res.sq)]
                   [] res.kind = "attack" ->
                        [info EXCEPT !.attack_lines_ = info.attack_lines_ \cup res.line,
                                     !.num_king_attackers = info.num_king_attackers + 1]
                   [] res.kind = "hang" -> [info EXCEPT !.hang = TRUE]
                   [] OTHER -> info
         IN  With(info1, LAMBDA v : ScanDirections(b, sliders, directions, i + 1, v))

\* ChessBoard::GenerateKingAttackInfo.  hang: the function does not return;
\* assert_fails: assert(num_king_attackers <= 2) fails where asserts are compiled in.
GenerateKingAttackInfo(b) ==
    LET info0 == [attack_lines_ |-> EmptyBB, pinned_pieces_ |-> EmptyBB,
                  num_king_attackers |-> 0, hang |-> FALSE]
        info1 == IF intersects(TableRead(kRookAttacks0, b.our_king_),
                               b.their_pieces_ \cap b.rooks_)
                 THEN ScanDirections(b, b.rooks_, kRookDirections, 1, info0)
                 ELSE info0
        info2 == IF ~info1.hang /\ intersects(TableRead(kBishopAttacks0, b.our_king_),
                                              b.their_pieces_ \cap b.bishops_)
                 THEN ScanDirections(b, b.bishops_, kBishopDirections, 1, info1)
                 ELSE info1
        attacking_pawns ==
            TableRead(kPawnAttacks0, b.our_king_) \cap b.their_pieces_ \cap b.pawns_
        attacking_knights == TableRead(kKnightAttacks0, b.our_king_) \cap TheirKnights(b)
        n == info2.num_king_attackers
               + (IF as_int(attacking_pawns) # {} THEN 1 ELSE 0)
               + (IF as_int(attacking_knights) # {} THEN 1 ELSE 0)
    IN  [attack_lines_ |-> info2.attack_lines_ \cup attacking_pawns \cup attacking_knights,
         pinned_pieces_ |-> info2.pinned_pieces_,
         num_king_attackers |-> n,
         double_check_ |-> (n = 2),
         assert_fails |-> (n > 2),
         hang |-> info2.hang]

\* KingAttackInfo's accessors.
in_check(info) == info.attack_lines_ # EmptyBB
in_double_check(info) == info.double_check_
is_pinned(info, sq) == BBget(info.pinned_pieces_, sq)
is_on_attack_line(info, sq) == BBget(info.attack_lines_, sq)

\* ---------------------------------------------------------------- IsLegalMove

\* "Just apply and check that we are not under check."
SafeAfter(b, move) == With(ApplyMove(b, move).b, LAMBDA after : ~IsUnderCheck(after))

IsLegalMove(b, move, king_attack_info) ==
    LET from == MoveFrom(move)
        to == MoveTo(move)
        dx_from == col(from) - col(b.our_king_)
        dy_from == row(from) - row(b.our_king_)
        dx_to == col(to) - col(b.our_king_)
        dy_to == row(to) - row(b.our_king_)
    IN  IF /\ row(from) = 4
           /\ BBget(b.pawns_, from)
           /\ col(from) # col(to)
           /\ BBget(b.pawns_, BoardSquare3(7, col(to), 1))
        THEN SafeAfter(b, move)
        ELSE IF in_check(king_attack_info)
        THEN IF from = b.our_king_ THEN SafeAfter(b, move)
             ELSE IF is_pinned(king_attack_info, from) THEN FALSE
             ELSE IF in_double_check(king_attack_info) THEN FALSE
             ELSE is_on_attack_line(king_attack_info, to)
        ELSE IF from = b.our_king_
        THEN IF \/ row(from) # 0
                \/ row(to) # 0
                \/ (Abs(col(from) - col(to)) = 1 /\ ~BBget(b.our_pieces_, to))
             THEN TRUE
             ELSE SafeAfter(b, move)
        ELSE IF ~is_pinned(king_attack_info, from) THEN TRUE
        ELSE IF dx_from = 0 \/ dx_to = 0 THEN dx_from = dx_to
        ELSE dx_from * dy_to = dx_to * dy_from

\* ChessBoard::GenerateLegalMoves: the pseudo-legal moves that IsLegalMove keeps,
\* in their order.
GenerateLegalMoves(b) ==
    With(GenerateKingAttackInfo(b),
         LAMBDA king_attack_info :
             SelectSeq(GeneratePseudolegalMoves(b),
                       LAMBDA m : IsLegalMove(b, m, king_attack_info)))

\* ------------------------------------------------------------ input strings

\* "8/k1K5/8/8/8/8/8/R7 b - -": black is checkmated.
MateFen ==
    Fen(<<"8", "/", "k", "1", "K", "5", "/">> \o Rep(5, <<"8", "/">>) \o <<"R", "7">>,
        "b", Dash, Dash)

\* "8/kBK5/8/8/8/8/8/8 b - -": black is stalemated.
StalemateFen ==
    Fen(<<"8", "/", "k", "B", "K", "5">> \o Rep(6, <<"/", "8">>), "b", Dash, Dash)

\* "8/p2k4/2B5/8/8/8/8/7K b - -": the bishop on c6 checks the king on d7.
BishopCheckFen ==
    Fen(<<"8", "/", "p", "2", "k", "4", "/", "2", "B", "5", "/">>
          \o Rep(4, <<"8", "/">>) \o <<"7", "K">>,
        "b", Dash, Dash)

\* "8/k3p2R/8/8/8/8/8/7K b - -": the rook on h7 pins the pawn on e7 to the king on a7.
PinFen ==
    Fen(<<"8", "/", "k", "3", "p", "2", "R", "/">> \o Rep(5, <<"8", "/">>) \o <<"7", "K">>,
        "b", Dash, Dash)

\* "8/k7/2R5/8/8/8/8/7K b - -": a rook on c6, the king on a7 is not attacked.
RookFen ==
    Fen(<<"8", "/", "k", "7", "/", "2", "R", "5", "/">>
          \o Rep(4, <<"8", "/">>) \o <<"7", "K">>,
        "b", Dash, Dash)

\* "8/4k3/8/8/8/8/8/R3K2R w HA -": white may castle with either rook.
CastleFen ==
    Fen(<<"8", "/", "4", "k", "3", "/">> \o Rep(5, <<"8", "/">>)
          \o <<"R", "3", "K", "2", "R">>,
        "w", <<"H", "A">>, Dash)

\* Fourteen empty rows, then "4K2R", white to move with the right "H": a board
\* field whose king lands on square 4 (e1 of the lower word).
CastleFen15 ==
    Fen(Rep(14, <<"8", "/">>) \o <<"4", "K", "2", "R">>, "w", <<"H">>, Dash)

\* "8/pP2k3/8/3P4/8/8/8/4K3 b - -": black's a-pawn may advance one or two squares.
PawnFen ==
    Fen(<<"8", "/", "p", "P", "2", "k", "3", "/", "8", "/", "3", "P", "4", "/">>
          \o Rep(3, <<"8", "/">>) \o <<"4", "K", "3">>,
        "b", Dash, Dash)

\* "8/3kp3/8/8/8/8/8/7K b - -": the king on d7 beside its own pawn on e7.
KingPawnFen ==
    Fen(<<"8", "/", "3", "k", "p", "3", "/">> \o Rep(5, <<"8", "/">>) \o <<"7", "K">>,
        "b", Dash, Dash)

\* Fourteen empty rows, then "4K1kR", white to move with the right "H": as
\* CastleFen15, with the black king on g1 between the white king and its rook.
CastleKingFen ==
    Fen(Rep(14, <<"8", "/">>) \o <<"4", "K", "1", "k", "R">>, "w", <<"H">>, Dash)

\* "8/4k4/8/8/8/8/8/4K3 w - -": the second row counts nine columns.
WideRowFen ==
    Fen(<<"8", "/", "4", "k", "4", "/">> \o Rep(5, <<"8", "/">>) \o <<"4", "K", "3">>,
        "w", Dash, Dash)

\* "8/4x3/8/8/8/8/8/4K3 w - -": x is no piece symbol.
BadSymbolFen ==
    Fen(<<"8", "/", "4", "x", "3", "/">> \o Rep(5, <<"8", "/">>) \o <<"4", "K", "3">>,
        "w", Dash, Dash)

\* "8/4k3/8/8/8/8/8/4K3 w H -": the right "H" on a board without rooks.
NoRookFen ==
    Fen(<<"8", "/", "4", "k", "3", "/">> \o Rep(5, <<"8", "/">>) \o <<"4", "K", "3">>,
        "w", <<"H">>, Dash)

\* The strings given to SetFromFen.
Fens ==
    <<kStartposFen, kEndGameFen, MateFen, StalemateFen, BishopCheckFen, PinFen, RookFen,
      CastleFen, CastleFen15, PawnFen, KingPawnFen, CastleKingFen, WideRowFen, BadSymbolFen,
      NoRookFen>>

\* --------------------------------------------- EncodePositionForNN, PopulateBoard

\* The piece sets of ChessBoard by kind.
pawns(b) == b.pawns_ \cap kPawnMask
bishops(b) == b.bishops_ \ b.rooks_
queens(b) == b.rooks_ \cap b.bishops_
kings(b) == BBset(BBset(EmptyBB, b.our_king_), b.their_king_)
knights(b) ==
    ((MinusSquare(MinusSquare((b.our_pieces_ \cup b.their_pieces_) \ pawns(b), b.our_king_),
                  b.their_king_)) \ b.rooks_) \ b.bishops_

\* BitBoard::lower, middle, upper: the word as an int, its low 32 bits.
lower(b) == {i \in board_lower_(b) : i < 32}
middle(b) == {i \in board_middle_(b) : i < 32}
upper(b) == {i \in board_upper_(b) : i < 32}

\* mask = x & y for two ints: the int is widened to the 64-bit mask with its
\* sign, so bit 31 fills the upper half.
PlaneMask(x, y) == LET v == x \cap y IN IF 31 \in v THEN v \cup (32..63) ELSE v

\* The three planes of one piece kind and side, as PopulateBoard joins them to a
\* BitBoard again.
Planes3(side, kind) ==
    BitBoard3(PlaneMask(lower(side), lower(kind)), PlaneMask(middle(side), middle(kind)),
              PlaneMask(upper(side), upper(kind)))

\* The piece planes EncodePositionForNN writes for the last position.
PiecePlanes(b) ==
    [pawnsOurs |-> Planes3(b.our_pieces_, pawns(b)),
     knightsOurs |-> Planes3(b.our_pieces_, knights(b)),
     bishopOurs |-> Planes3(b.our_pieces_, bishops(b)),
     rookOurs |-> Planes3(b.our_pieces_, RooksOnly(b)),
     queenOurs |-> Planes3(b.our_pieces_, queens(b)),
     kingOurs |-> Planes3(b.our_pieces_, kings(b)),
     pawnsTheirs |-> Planes3(b.their_pieces_, pawns(b)),
     knightsTheirs |-> Planes3(b.their_pieces_, knights(b)),
     bishopTheirs |-> Planes3(b.their_pieces_, bishops(b)),
     rookTheirs |-> Planes3(b.their_pieces_, RooksOnly(b)),
     queenTheirs |-> Planes3(b.their_pieces_, queens(b)),
     kingTheirs |-> Planes3(b.their_pieces_, kings(b))]

\* INPUT_CLASSICAL_112_PLANE: the four castling planes are filled from the four
\* rights, and PopulateBoard sets the rights of a new Castlings from them.
PlaneCastlings(b) ==
    [we_can_00 |-> b.castlings_.we_can_00, we_can_000 |-> b.castlings_.we_can_000,
     they_can_00 |-> b.castlings_.they_can_00, they_can_000 |-> b.castlings_.they_can_000,
     queenside_rook |-> FILE_A, kingside_rook |-> FILE_H]

\* A plane with every bit set (InputPlane::SetAll), and the first auxiliary
\* plane of the 112 planes.
kAllSquaresMask == 0..63
kAuxPlaneBase == 13 * 8

\* The castling planes with the kingside right first.
CastlingPlaneKingsideFirst(c, k) ==
    LET held == <<c.we_can_00, c.we_can_000, c.they_can_00, c.they_can_000>>[k + 1]
    IN  IF held THEN kAllSquaresMask ELSE EmptyBB

\* INPUT_CLASSICAL_112_PLANE: result[kAuxPlaneBase + k] for k in 0..3.
CastlingPlane(c, k) ==
    LET held == <<c.we_can_000, c.we_can_00, c.they_can_000, c.they_can_00>>[k + 1]
    IN  IF held THEN kAllSquaresMask ELSE EmptyBB

\* EncodePositionForNN(INPUT_CLASSICAL_112_PLANE, history, 8,
\* FillEmptyHistory::NO, &transform) for a history that holds the one position
\* b: the masks of the planes and the transform. The loop writes the planes of
\* the last position and leaves at history_idx < 0; the position has no
\* repetitions and a zero rule50 count.
EncodePositionForNN(b) ==
    LET P == PiecePlanes(b)
        kinds == <<P.pawnsOurs, P.knightsOurs, P.bishopOurs, P.rookOurs, P.queenOurs,
                   P.kingOurs, P.pawnsTheirs, P.knightsTheirs, P.bishopTheirs,
                   P.rookTheirs, P.queenTheirs, P.kingTheirs>>
        word(bb, l) == IF l = 0 THEN board_lower_(bb)
                       ELSE IF l = 1 THEN board_middle_(bb) ELSE board_upper_(bb)
        plane(p) ==
            IF p < 36 THEN word(kinds[(p \div 3) + 1], p % 3)
            ELSE IF p < kAuxPlaneBase THEN EmptyBB
            ELSE IF p < kAuxPlaneBase + 4 THEN CastlingPlane(b.castlings_, p - kAuxPlaneBase)
            ELSE IF p = kAuxPlaneBase + 4
                 THEN (IF b.flipped_ THEN kAllSquaresMask ELSE EmptyBB)
            ELSE IF p = kAuxPlaneBase + 6 THEN EmptyBB
            ELSE kAllSquaresMask
    IN  [mask |-> [p \in 0..(kAuxPlaneBase + 7) |-> plane(p)], transform |-> 0]

\* PopulateBoard with black to move: the two sides are swapped and every piece
\* set is mirrored.
PlanesMirror(P) ==
    [pawnsOurs |-> BBMirror(P.pawnsTheirs), knightsOurs |-> BBMirror(P.knightsTheirs),
     bishopOurs |-> BBMirror(P.bishopTheirs), rookOurs |-> BBMirror(P.rookTheirs),
     queenOurs |-> BBMirror(P.queenTheirs), kingOurs |-> BBMirror(P.kingTheirs),
     pawnsTheirs |-> BBMirror(P.pawnsOurs), knightsTheirs |-> BBMirror(P.knightsOurs),
     bishopTheirs |-> BBMirror(P.bishopOurs), rookTheirs |-> BBMirror(P.rookOurs),
     queenTheirs |-> BBMirror(P.queenOurs), kingTheirs |-> BBMirror(P.kingOurs)]

\* The character with the given code; std::to_string of a count of 1..8.
CharOf(code) == CHOOSE c \in DOMAIN Ascii : Ascii[c] = code
to_string(n) == CharOf(48 + n)

\* The symbol PopulateBoard finds for one square, "" for none.
PieceAt(P, r, c, l) ==
    LET sq == BoardSquare3(r, c, l)
    IN  IF BBget(P.pawnsOurs, sq) THEN "P"
        ELSE IF BBget(P.pawnsTheirs, sq) THEN "p"
        ELSE IF BBget(P.knightsOurs, sq) THEN "N"
        ELSE IF BBget(P.knightsTheirs, sq) THEN "n"
        ELSE IF BBget(P.bishopOurs, sq) THEN "B"
        ELSE IF BBget(P.bishopTheirs, sq) THEN "b"
        ELSE IF BBget(P.rookOurs, sq) THEN "R"
        ELSE IF BBget(P.rookTheirs, sq) THEN "r"
        ELSE IF BBget(P.queenOurs, sq) THEN "Q"
        ELSE IF BBget(P.queenTheirs, sq) THEN "q"
        ELSE IF BBget(P.kingOurs, sq) THEN "K"
        ELSE IF BBget(P.kingTheirs, sq) THEN "k"
        ELSE ""

\* The loop over the columns of one row, from column c with the empty squares
\* counted so far.
RECURSIVE FenRow(_, _, _, _, _)
FenRow(P, l, r, c, emptycounter) ==
    LET count == IF emptycounter > 0 THEN <<to_string(emptycounter)>> ELSE <<>>
    IN  IF c = 8 THEN count
        ELSE With(PieceAt(P, r, c, l),
                  LAMBDA piece :
                      IF piece = "" THEN FenRow(P, l, r, c + 1, emptycounter + 1)
                      ELSE count \o <<piece>> \o FenRow(P, l, r, c + 1, 0))

\* The loops over the layers 2..0 and the rows 7..0, from the k-th row written.
RECURSIVE FenRows(_, _)
FenRows(P, k) ==
    IF k = 24 THEN <<>>
    ELSE LET l == 2 - (k \div 8)
             r == 7 - (k % 8)
         IN  FenRow(P, l, r, 0, 0) \o (IF r > 0 THEN <<"/">> ELSE <<>>) \o FenRows(P, k + 1)

\* Castlings::as_string.
as_string(c) ==
    IF ~(c.we_can_00 \/ c.we_can_000 \/ c.they_can_00 \/ c.they_can_000) THEN Dash
    ELSE IF c.queenside_rook = FILE_A /\ c.kingside_rook = FILE_H
      THEN (IF c.we_can_00 THEN <<"K">> ELSE <<>>) \o (IF c.we_can_000 THEN <<"Q">> ELSE <<>>)
           \o (IF c.they_can_00 THEN <<"k">> ELSE <<>>)
           \o (IF c.they_can_000 THEN <<"q">> ELSE <<>>)
    ELSE (IF c.we_can_00 THEN <<CharOf(65 + c.kingside_rook)>> ELSE <<>>)
         \o (IF c.we_can_000 THEN <<CharOf(65 + c.queenside_rook)>> ELSE <<>>)
         \o (IF c.they_can_00 THEN <<CharOf(97 + c.kingside_rook)>> ELSE <<>>)
         \o (IF c.they_can_000 THEN <<CharOf(97 + c.queenside_rook)>> ELSE <<>>)

\* The string PopulateBoard builds from the planes of the position b: board,
\* side to move, castlings; no en-passant field is written.
PopulatedFen(b) ==
    LET black_to_move == b.flipped_
        P == IF black_to_move THEN PlanesMirror(PiecePlanes(b)) ELSE PiecePlanes(b)
        castlings == IF black_to_move THEN CastlingsMirror(PlaneCastlings(b))
                     ELSE PlaneCastlings(b)
    IN  With(P, LAMBDA planes :
            Fen(FenRows(planes, 0), IF black_to_move THEN "b" ELSE "w",
                as_string(castlings), Dash))

\* PopulateBoard(EncodePositionForNN(b)): the new board after its SetFromFen.
PopulateBoard(b) == With(PopulatedFen(b), SetFromFen)

\* ------------------------------------------------------------ the program

Range(seq) == {seq[i] : i \in 1..Len(seq)}

\* The castling moves a caller builds with Move(from, to) for a right the mover
\* holds: onto the rook as the generator writes it (BoardSquare(RANK_1, rook)),
\* onto the rook's square on the king's own rank, and the king's two-file step.
CastlingInputs(b, can, rook, file) ==
    IF can
    THEN {Move2(b.our_king_, BoardSquare2(RANK_1, rook)),
          Move2(b.our_king_, b.our_king_ - col(b.our_king_) + rook),
          Move2(b.our_king_, b.our_king_ - col(b.our_king_) + file)}
    ELSE {}

KingsideInputs(b) ==
    CastlingInputs(b, b.castlings_.we_can_00, b.castlings_.kingside_rook, FILE_G)
QueensideInputs(b) ==
    CastlingInputs(b, b.castlings_.we_can_000, b.castlings_.queenside_rook, FILE_C)

\* The moves given to ApplyMove: a move GenerateLegalMoves returned, or a
\* castling move.
MoveInputs == Range(moves) \cup KingsideInputs(board) \cup QueensideInputs(board)

\* The threads that query the attack tables, and a thread between two queries.
Threads == {1, 2}

Idle == [pc |-> "idle", kind |-> "", square |-> 0, pieces |-> EmptyBB, index |-> 0,
         attacks |-> EmptyBB]

NoInfo ==
    [attack_lines_ |-> EmptyBB, pinned_pieces_ |-> EmptyBB, num_king_attackers |-> 0,
     double_check_ |-> FALSE, assert_fails |-> FALSE, hang |-> FALSE]

Init ==
    /\ shl_wraps \in BOOLEAN
    /\ oob \in OobValues
    /\ magic_ready = FALSE
    /\ board = ClearBoard
    /\ pc = "new"
    /\ fen = 0
    /\ moves = <<>>
    /\ last_info = NoInfo
    /\ prev = ClearBoard
    /\ last_move = 0
    /\ last_ret = FALSE
    /\ ply = 0
    /\ legal_play = TRUE
    /\ mv = 0
    /\ thr = [t \in Threads |-> Idle]

\* InitializeMagicBitboards(), called once before any position is used.
InitializeMagicBitboards ==
    /\ ~magic_ready
    /\ magic_ready' = TRUE
    /\ UNCHANGED <<thr, mv, shl_wraps, oob, board, pc, fen, moves, last_info, prev,
                   last_move, last_ret, ply, legal_play>>

\* board.SetFromFen(Fens[i]) on the new board, or on the board an earlier call
\* has filled; the caller catches the exception if one is thrown.
SetFromFenCall(i) ==
    /\ magic_ready
    /\ pc = "new" \/ (pc = "ready" /\ ply = 0)
    /\ LET r == SetFromFen(Fens[i])
       IN  /\ board' = r.b
           /\ pc' = IF r.err = "" THEN "ready" ELSE "threw"
    /\ fen' = i
    /\ UNCHANGED <<thr, mv, shl_wraps, oob, magic_ready, moves, last_info, prev,
                   last_move, last_ret, ply, legal_play>>

\* moves = board.GenerateLegalMoves(), with the KingAttackInfo it computed.
GenerateLegalMovesCall ==
    /\ pc = "ready"
    /\ LET info == GenerateKingAttackInfo(board)
       IN  IF info.hang
           THEN /\ pc' = "hung"
                /\ UNCHANGED <<moves, last_info>>
           ELSE /\ pc' = "generated"
                /\ moves' = GenerateLegalMoves(board)
                /\ last_info' = info
    /\ UNCHANGED <<thr, mv, shl_wraps, oob, magic_ready, board, fen, prev, last_move, last_ret,
                   ply, legal_play>>

\* board.ApplyMove(m) for the side to move.
ApplyMoveCall(m) ==
    /\ pc = "generated"
    /\ ply < MaxPly
    /\ LET r == ApplyMove(board, m)
       IN  /\ board' = r.b
           /\ last_ret' = r.ret
    /\ prev' = board
    /\ last_move' = m
    /\ pc' = "applied"
    /\ ply' = ply + 1
    /\ legal_play' = (legal_play /\ m \in Range(moves))
    /\ UNCHANGED <<thr, mv, shl_wraps, oob, magic_ready, fen, moves, last_info>>

\* board.Mirror(), which hands the move to the other side.
MirrorCall ==
    /\ pc = "applied"
    /\ board' = BoardMirror(board)
    /\ pc' = "ready"
    /\ UNCHANGED <<thr, mv, shl_wraps, oob, magic_ready, fen, moves, last_info, prev,
                   last_move, last_ret, ply, legal_play>>

\* PopulateBoard(EncodePositionForNN(board), &board): the position SetFromFen
\* built is encoded and decoded into the board again, prev keeps the position
\* that was encoded.
PopulateBoardCall ==
    /\ pc = "ready"
    /\ ply = 0
    /\ LET r == PopulateBoard(board)
       IN  /\ board' = r.b
           /\ pc' = IF r.err = "" THEN "decoded" ELSE "decode threw"
    /\ prev' = board
    /\ UNCHANGED <<thr, mv, shl_wraps, oob, magic_ready, fen, moves, last_info,
                   last_move, last_ret, ply, legal_play>>

Next ==
    \/ InitializeMagicBitboards
    \/ \E i \in 1..Len(Fens) : SetFromFenCall(i)
    \/ GenerateLegalMovesCall
    \/ \E m \in MoveInputs : ApplyMoveCall(m)
    \/ MirrorCall
    \/ PopulateBoardCall

Spec == Init /\ [][Next]_vars

\* ----------------------------------------------------- the Move object alone

\* The squares and promotion kinds given to the members of Move.
MoveSquares == {0, 7, 32, 63}
Promotions == {PromoNone, PromoQueen, PromoRook, PromoBishop, PromoKnight}

\* move = Move(from, to, promotion).
MoveCall(from, to, promo) ==
    /\ mv' = Move3(from, to, promo)
    /\ pc' = "Move"
    /\ UNCHANGED <<thr, shl_wraps, oob, magic_ready, board, fen, moves, last_info, prev,
                   last_move, last_ret, ply, legal_play>>

\* move.SetTo(to).
SetToCall(to) ==
    /\ mv' = SetTo(mv, to)
    /\ pc' = "SetTo"
    /\ UNCHANGED <<thr, shl_wraps, oob, magic_ready, board, fen, moves, last_info, prev,
                   last_move, last_ret, ply, legal_play>>

\* move.SetFrom(from).
SetFromCall(from) ==
    /\ mv' = SetFrom(mv, from)
    /\ pc' = "SetFrom"
    /\ UNCHANGED <<thr, shl_wraps, oob, magic_ready, board, fen, moves, last_info, prev,
                   last_move, last_ret, ply, legal_play>>

\* move.SetPromotion(promotion).
SetPromotionCall(promo) ==
    /\ mv' = SetPromotion(mv, promo)
    /\ pc' = "SetPromotion"
    /\ UNCHANGED <<thr, shl_wraps, oob, magic_ready, board, fen, moves, last_info, prev,
                   last_move, last_ret, ply, legal_play>>

MoveNext ==
    \/ \E from \in MoveSquares, to \in MoveSquares, promo \in Promotions :
          MoveCall(from, to, promo)
    \/ \E to \in MoveSquares : SetToCall(to)
    \/ \E from \in MoveSquares : SetFromCall(from)
    \/ \E promo \in Promotions : SetPromotionCall(promo)

MoveSpec == Init /\ [][MoveNext]_vars

\* ------------------------------------------- attack queries from several threads

ThreadSquares == {0, 27}
ThreadPieces == {EmptyBB, BitBoard3({1, 8, 9, 18}, {}, {})}

\* The static arrays as a thread reads them: zero until
\* InitializeMagicBitboards has filled them.
MagicParams(kind) == IF kind = "rook" THEN rook_magic_params ELSE bishop_magic_params

mask_(kind, square) == IF magic_ready THEN MagicParams(kind)[square].mask_ ELSE EmptyBB

attacks_table_(kind, square, index) ==
    IF magic_ready THEN TableLookup(MagicParams(kind), square, index) ELSE EmptyBB

\* A step of a query that also clears the attack tables.
QueryTableClearing(t) ==
    /\ thr[t].pc = "index"
    /\ thr' = [thr EXCEPT ![t].pc = "done",
                          ![t].attacks = attacks_table_(thr[t].kind, thr[t].square,
                                                        thr[t].index)]
    /\ magic_ready' = FALSE
    /\ UNCHANGED <<mv, shl_wraps, oob, board, pc, fen, moves, last_info, prev,
                   last_move, last_ret, ply, legal_play>>

\* Thread t enters GetRookAttacks / GetBishopAttacks: it reads mask_ of the
\* square and computes the index.
QueryIndex(t, kind, square, pieces) ==
    /\ magic_ready
    /\ thr[t].pc = "idle"
    /\ thr' = [thr EXCEPT ![t] = [pc |-> "index", kind |-> kind, square |-> square,
                                  pieces |-> pieces,
                                  index |-> Pext(as_int(pieces), mask_(kind, square)),
                                  attacks |-> EmptyBB]]
    /\ UNCHANGED <<mv, shl_wraps, oob, magic_ready, board, pc, fen, moves, last_info,
                   prev, last_move, last_ret, ply, legal_play>>

\* Thread t reads attacks_table_[index].
QueryTable(t) ==
    /\ thr[t].pc = "index"
    /\ thr' = [thr EXCEPT ![t].pc = "done",
                          ![t].attacks = attacks_table_(thr[t].kind, thr[t].square,
                                                        thr[t].index)]
    /\ UNCHANGED <<mv, shl_wraps, oob, magic_ready, board, pc, fen, moves, last_info,
                   prev, last_move, last_ret, ply, legal_play>>

\* Thread t returns the attacks to its caller.
QueryReturn(t) ==
    /\ thr[t].pc = "done"
    /\ thr' = [thr EXCEPT ![t] = Idle]
    /\ UNCHANGED <<mv, shl_wraps, oob, magic_ready, board, pc, fen, moves, last_info,
                   prev, last_move, last_ret, ply, legal_play>>

QueryNext ==
    \/ InitializeMagicBitboards
    \/ \E t \in Threads, kind \in {"rook", "bishop"}, square \in ThreadSquares,
          pieces \in ThreadPieces : QueryIndex(t, kind, square, pieces)
    \/ \E t \in Threads : QueryTable(t)
    \/ \E t \in Threads : QueryReturn(t)

QuerySpec == Init /\ [][QueryNext]_vars

\* ===================================================================== claims

\* The pseudo-legal moves after which the mover's king is not attacked, as
\* ApplyMove on a copy and IsUnderCheck find it.
SafeMoves(b) == SelectSeq(GeneratePseudolegalMoves(b), LAMBDA m : SafeAfter(b, m))

\* C1: in every position reached by legal moves GenerateLegalMoves returns, and
\* returns exactly the pseudo-legal moves after whose application the mover's
\* king is not attacked: none that leaves the king attacked, none dropped.
C1_LegalIsSafeFilter ==
    (pc \in {"generated", "hung"} /\ legal_play)
        => (pc = "generated" /\ moves = SafeMoves(board))

\* C2: for the position built by SetFromFen(kStartposFen), GenerateLegalMoves
\* returns exactly 20 moves: SetFromFen returns, GenerateLegalMoves returns, and
\* the list it returns for that position has 20 entries.
C2_StartposTwentyMoves ==
    (fen >= 1 /\ Fens[fen] = kStartposFen)
        => /\ pc \notin {"threw", "hung"}
           /\ (pc = "generated" /\ ply = 0) => Len(moves) = 20

\* ------------------------------------------- the position in two dimensions

\* The rank and file of a square, whichever word of the BitBoard holds it: the
\* eight rows of a FEN string are spread over the three words, and sq % 64 is
\* the square the string names.
Flat(sq) == sq % 64
FlatRow(s) == s \div 8
FlatCol(s) == s % 8

\* Some bit of bb stands on the square s of the flat board.
At(bb, s) == \E t \in bb : Flat(t) = s

Occupied(b) == {Flat(t) : t \in b.our_pieces_ \cup b.their_pieces_}

Orthogonal(a, c) == a # c /\ (FlatRow(a) = FlatRow(c) \/ FlatCol(a) = FlatCol(c))
Diagonal(a, c) == a # c /\ Abs(FlatRow(a) - FlatRow(c)) = Abs(FlatCol(a) - FlatCol(c))

\* The squares strictly between two squares of one rank, file or diagonal.
Between(a, c) ==
    LET dr == FlatRow(c) - FlatRow(a)
        dc == FlatCol(c) - FlatCol(a)
        n == Max2(Abs(dr), Abs(dc))
    IN  IF Orthogonal(a, c) \/ Diagonal(a, c)
        THEN {a + k * (8 * (dr \div n) + (dc \div n)) : k \in 1..(n - 1)}
        ELSE {}

KingSquare(b) == Flat(b.our_king_)

\* s is an enemy slider whose orientation matches the line it shares with our
\* king: a rook or queen on a rank or file, a bishop or queen on a diagonal.
SliderOnKingLine(b, s) ==
    /\ s \in b.their_pieces_
    /\ \/ s \in b.rooks_ /\ Orthogonal(KingSquare(b), Flat(s))
       \/ s \in b.bishops_ /\ Diagonal(KingSquare(b), Flat(s))

\* The enemy sliders with no piece between them and our king.
SliderCheckers(b) ==
    {s \in b.their_pieces_ :
        SliderOnKingLine(b, s) /\ Between(KingSquare(b), Flat(s)) \cap Occupied(b) = {}}

\* The enemy knights a knight's jump from our king.
KnightCheckers(b) ==
    {s \in TheirKnights(b) :
        {Abs(FlatRow(Flat(s)) - FlatRow(KingSquare(b))),
         Abs(FlatCol(Flat(s)) - FlatCol(KingSquare(b)))} = {1, 2}}

\* The enemy pawns, which move down the board, one row above our king on a
\* neighbouring file.
PawnCheckers(b) ==
    {s \in b.their_pieces_ \cap b.pawns_ \cap kPawnMask :
        /\ FlatRow(Flat(s)) = FlatRow(KingSquare(b)) + 1
        /\ Abs(FlatCol(Flat(s)) - FlatCol(KingSquare(b))) = 1}

\* The pieces that give check.
Checkers(b) == SliderCheckers(b) \cup KnightCheckers(b) \cup PawnCheckers(b)

\* The squares that end a check by the slider s: between the king and s, or s.
ResolutionSquares(b, s) == Between(KingSquare(b), Flat(s)) \cup {Flat(s)}

\* The enemy sliders that pin our piece p: p stands alone between our king and
\* the slider.
Pinners(b, p) ==
    {s \in b.their_pieces_ :
        SliderOnKingLine(b, s)
        /\ Between(KingSquare(b), Flat(s)) \cap Occupied(b) = {Flat(p)}}

PinnedPieces(b) == {p \in b.our_pieces_ : p # b.our_king_ /\ Pinners(b, p) # {}}

\* C10: for a checkmate position GenerateLegalMoves returns no moves and the
\* king-attack analysis reports in-check; for a stalemate position it returns no
\* moves and the analysis reports not in-check.
C10_MateAndStalemate ==
    (fen >= 1 /\ ply = 0 /\ pc \in {"generated", "hung"})
        => /\ Fens[fen] = MateFen
                => (pc = "generated" /\ moves = <<>> /\ in_check(last_info))
           /\ Fens[fen] = StalemateFen
                => (pc = "generated" /\ moves = <<>> /\ ~in_check(last_info))

\* The moves that GeneratePseudolegalMoves emits for the king.
KingMoves(b) ==
    Range(KingSteps(b, b.our_king_, 1)) \cup Range(CastlingMoves(b, b.our_king_))

\* A move of the king: it leaves the king's square, or it is one of the moves
\* the generator emits for the king.
IsKingMove(b, m) == MoveFrom(m) = b.our_king_ \/ m \in KingMoves(b)

\* The moves of a list that leave the square p.
MovesFrom(list, p) == {m \in Range(list) : MoveFrom(m) = Flat(p)}

\* The squares of the line on which p is pinned: from the king (exclusive) to
\* each pinning slider (inclusive).
PinLine(b, p) == UNION {ResolutionSquares(b, s) : s \in Pinners(b, p)}

\* C7: where the mover is not in check and one of its pieces other than the king
\* stands alone between its king and an enemy slider of matching orientation,
\* the legal moves of that piece are exactly its pseudo-legal moves whose
\* destination lies on the line through the king and the slider.
C7_PinnedStaysOnLine ==
    (pc = "generated" /\ legal_play /\ Checkers(board) = {} /\ ~in_check(last_info))
        => \A p \in PinnedPieces(board) :
               {m \in MovesFrom(moves, p) : ~IsKingMove(board, m)}
                 = {m \in MovesFrom(GeneratePseudolegalMoves(board), p) :
                        ~IsKingMove(board, m) /\ MoveTo(m) \in PinLine(board, p)}

\* The test that sends IsLegalMove to its en passant branch.
IsEnPassantMove(b, m) ==
    /\ row(MoveFrom(m)) = 4
    /\ BBget(b.pawns_, MoveFrom(m))
    /\ col(MoveFrom(m)) # col(MoveTo(m))
    /\ BBget(b.pawns_, BoardSquare3(7, col(MoveTo(m)), 1))

\* C8: when the mover is in check, in double check only king moves are legal; in
\* single check a pseudo-legal move that is neither a king move nor en passant
\* is legal iff its piece is not pinned and its destination is the checker's
\* square or a square between the king and a checking slider; a pinned piece
\* has no legal move.
C8_CheckEvasion ==
    (pc = "generated" /\ legal_play /\ Checkers(board) # {})
        => /\ Cardinality(Checkers(board)) >= 2
                => \A m \in Range(moves) : IsKingMove(board, m)
           /\ Cardinality(Checkers(board)) = 1
                => \A m \in Range(GeneratePseudolegalMoves(board)) :
                       (~IsKingMove(board, m) /\ ~IsEnPassantMove(board, m))
                         => (m \in Range(moves)
                               <=> /\ ~At(PinnedPieces(board), MoveFrom(m))
                                   /\ \E s \in Checkers(board) :
                                          MoveTo(m) \in ResolutionSquares(board, s))
           /\ \A p \in PinnedPieces(board) :
                  \A m \in MovesFrom(moves, p) : IsKingMove(board, m)

\* C9: GenerateKingAttackInfo returns and counts each checking piece exactly
\* once, every square from the king (exclusive) to a checking slider
\* (inclusive) is on the attack lines, the count is at most two so that the
\* assertion holds, and double check is reported exactly when the count is two.
C9_AttackersCountedOnce ==
    (pc \in {"generated", "hung"} /\ legal_play)
        => /\ pc = "generated"
           /\ last_info.num_king_attackers = Cardinality(Checkers(board))
           /\ \A s \in SliderCheckers(board) :
                  \A t \in ResolutionSquares(board, s) : At(last_info.attack_lines_, t)
           /\ last_info.num_king_attackers <= 2
           /\ ~last_info.assert_fails
           /\ in_double_check(last_info) <=> last_info.num_king_attackers = 2

\* ------------------------------------------------------- the move applied last

LastFrom == MoveFrom(last_move)
LastTo == MoveTo(last_move)

\* The piece on the from square was a pawn; an opponent piece stood on the to
\* square.
MovedPawn == LastFrom \in prev.pawns_ \cap kPawnMask
Captured == LastTo \in prev.their_pieces_

\* A castling move: the king on the first rank moving onto its own rook, or the
\* legacy e1g1 / e1c1 form.
KingOnFirstRank ==
    LastFrom = prev.our_king_ /\ row(LastFrom) = RANK_1 /\ row(LastTo) = RANK_1
OntoOwnRook == KingOnFirstRank /\ At(prev.rooks_ \cap prev.our_pieces_, LastTo)
LegacyCastling ==
    KingOnFirstRank /\ col(LastFrom) = FILE_E /\ col(LastTo) \in {FILE_G, FILE_C}
WasCastling == OntoOwnRook \/ LegacyCastling

\* C3: ApplyMove returns true exactly when the moved piece is a pawn or an
\* opponent piece is captured (promotions and en passant are pawn moves), and
\* false for every other move, castling included.
C3_ReturnsPawnOrCapture ==
    (pc = "applied")
        => (last_ret <=> (~WasCastling /\ (MovedPawn \/ Captured)))

\* The castling is to the king's side; the squares g1 or c1 for the king, f1 or
\* d1 for the rook, and the square the rook starts from.
Kingside == IF OntoOwnRook THEN col(LastTo) > col(LastFrom) ELSE col(LastTo) = FILE_G
KingGoal == IF Kingside THEN Flat(G1M) ELSE Flat(C1M)
RookGoal == IF Kingside THEN Flat(F1M) ELSE Flat(D1M)
RookStart == IF OntoOwnRook THEN LastTo ELSE IF Kingside THEN Flat(H1M) ELSE Flat(A1M)

\* The en passant markers of a board: the pawn bits outside kPawnMask, the bits
\* that "pawns_ &= kPawnMask" removes and that the pawn captures of
\* GeneratePseudolegalMoves read on RANK_8.
Markers(b) == b.pawns_ \ kPawnMask

\* C4: after ApplyMove is given a castling move the king stands on g1 or c1 and
\* the rook on f1 or d1, the squares the king and the rook started from are
\* empty unless one of them is a destination, the en passant marker is cleared,
\* both castling rights of the mover are revoked, and no other piece set and no
\* right of the opponent has changed.
C4_CastlingEffects ==
    (pc = "applied" /\ WasCastling)
        => /\ Flat(board.our_king_) = KingGoal
           /\ At(board.our_pieces_, KingGoal)
           /\ At(board.our_pieces_ \cap board.rooks_, RookGoal)
           /\ \A s \in {LastFrom, RookStart} \ {KingGoal, RookGoal} :
                  ~At(board.our_pieces_, s) /\ ~At(board.rooks_, s)
           /\ Markers(board) = {}
           /\ ~board.castlings_.we_can_00 /\ ~board.castlings_.we_can_000
           /\ board.their_pieces_ = prev.their_pieces_
           /\ board.their_king_ = prev.their_king_
           /\ board.bishops_ = prev.bishops_
           /\ board.pawns_ \cap kPawnMask = prev.pawns_ \cap kPawnMask
           /\ board.castlings_.they_can_00 = prev.castlings_.they_can_00
           /\ board.castlings_.they_can_000 = prev.castlings_.they_can_000

\* The last move took a pawn two rows up the board.
TwoSquarePush == LastTo \in board.pawns_ /\ row(LastTo) - row(LastFrom) = 2

\* An opponent pawn stands beside the square the pawn landed on, from where it
\* attacks the square the pawn skipped.
SkippedSquareAttacked ==
    \E c \in {col(LastTo) - 1, col(LastTo) + 1} :
        /\ c \in 0..7
        /\ At(board.their_pieces_ \cap board.pawns_ \cap kPawnMask, 8 * row(LastTo) + c)

\* C6: every ApplyMove clears the en passant marker it finds and sets a new one,
\* on the file of the moved pawn, only after a two-square pawn push and only if
\* an opponent pawn attacks the skipped square; so move generation offers an en
\* passant capture only on the ply right after a double push.
C6_MarkerOnlyAfterDoublePush ==
    /\ pc = "applied"
         => /\ Markers(board) \subseteq {BoardSquare3(0, col(LastTo), kEnPassantLayer)}
            /\ Markers(board) # {} => (TwoSquarePush /\ SkippedSquareAttacked)
    /\ (pc = "generated" /\ \E m \in Range(moves) : IsEnPassantMove(board, m))
         => (ply >= 1 /\ row(LastTo) - row(LastFrom) = 2)

\* ------------------------------------------------------------------ castling

\* The opponent attacks the square s of the flat board: its king stands beside
\* s, one of its sliders of matching orientation sees s with no piece other
\* than our king in between, one of its knights is a jump away, or one of its
\* pawns stands one row above s on a neighbouring file.
AttackedFlat(b, s) ==
    \/ /\ Flat(b.their_king_) # s
       /\ Abs(FlatRow(Flat(b.their_king_)) - FlatRow(s)) <= 1
       /\ Abs(FlatCol(Flat(b.their_king_)) - FlatCol(s)) <= 1
    \/ \E t \in b.their_pieces_ :
          /\ \/ t \in b.rooks_ /\ Orthogonal(s, Flat(t))
             \/ t \in b.bishops_ /\ Diagonal(s, Flat(t))
          /\ Between(s, Flat(t)) \cap (Occupied(b) \ {KingSquare(b)}) = {}
    \/ \E t \in TheirKnights(b) :
          {Abs(FlatRow(Flat(t)) - FlatRow(s)), Abs(FlatCol(Flat(t)) - FlatCol(s))} = {1, 2}
    \/ \E t \in b.their_pieces_ \cap b.pawns_ \cap kPawnMask :
          /\ FlatRow(Flat(t)) = FlatRow(s) + 1
          /\ Abs(FlatCol(Flat(t)) - FlatCol(s)) = 1

\* The squares of the first rank from file a to file c, both included.
Span(a, c) == {s \in 0..7 : Min2(a, c) <= s /\ s <= Max2(a, c)}

\* The castling move the generator writes for a rook file: from the king onto
\* BoardSquare(RANK_1, rook).
CastlingMove(b, rook) == Move2(b.our_king_, BoardSquare2(RANK_1, rook))

\* The castling to the king's side (TRUE) or the queen's side (FALSE) is among
\* the moves returned for the board.
CastlingOffered(kingside) ==
    LET rook == IF kingside THEN board.castlings_.kingside_rook
                ELSE board.castlings_.queenside_rook
    IN  /\ CastlingMove(board, rook) \in Range(moves)
        /\ CastlingMoves(board, board.our_king_) # <<>>
        /\ CastlingMove(board, rook) \in Range(CastlingMoves(board, board.our_king_))

\* What chess asks of that castling: the right is held, the squares the king and
\* the rook cross or land on hold no piece but the two, and no square from the
\* king's start to its destination is attacked.
CastlingAllowed(kingside) ==
    LET rook == IF kingside THEN board.castlings_.kingside_rook
                ELSE board.castlings_.queenside_rook
        king == KingSquare(board)
        king_dst == IF kingside THEN Flat(G1M) ELSE Flat(C1M)
        rook_dst == IF kingside THEN Flat(F1M) ELSE Flat(D1M)
        crossed == (Span(king, king_dst) \cup Span(rook, rook_dst)) \ {king, rook}
    IN  /\ IF kingside THEN board.castlings_.we_can_00 ELSE board.castlings_.we_can_000
        /\ FlatRow(king) = RANK_1
        /\ crossed \cap (Occupied(board) \cup {Flat(board.their_king_)}) = {}
        /\ \A s \in Span(king, king_dst) : ~AttackedFlat(board, s)

\* C11: a castling move is among the moves GenerateLegalMoves returns only if
\* its right is held, every square between the king's start and destination and
\* between the rook's start and destination, the two pieces' own squares aside,
\* is empty, and no square from the king's start to its destination is attacked.
C11_CastlingOnlyWhenAllowed ==
    (pc = "generated" /\ legal_play)
        => \A kingside \in BOOLEAN : CastlingOffered(kingside) => CastlingAllowed(kingside)

\* ChessBoard::GetLegacyMove: e1h1 / e1a1 castling written as e1g1 / e1c1.
GetLegacyMove(b, move) ==
    IF b.our_king_ # MoveFrom(move) \/ ~BBget(b.our_pieces_, MoveTo(move)) THEN move
    ELSE IF move = Move2(E1M, H1M) THEN Move2(E1M, G1M)
    ELSE IF move = Move2(E1M, A1M) THEN Move2(E1M, C1M)
    ELSE move

\* ChessBoard::GetModernMove: e1g1 / e1c1 king moves written as e1h1 / e1a1.
GetModernMove(b, move) ==
    IF b.our_king_ # E1M \/ MoveFrom(move) # E1M THEN move
    ELSE IF move = Move2(E1M, G1M) /\ ~BBget(b.our_pieces_, G1M) THEN Move2(E1M, H1M)
    ELSE IF move = Move2(E1M, C1M) /\ ~BBget(b.our_pieces_, C1M) THEN Move2(E1M, A1M)
    ELSE move

\* C12: a castling move among the returned moves reads from = the king's square
\* and to = the square of the castling rook, and translating any returned move
\* to the legacy notation and back gives the move again.
C12_CastlingEncodingRoundTrip ==
    (pc = "generated" /\ legal_play)
        => /\ \A kingside \in BOOLEAN :
                 CastlingOffered(kingside)
                   => LET rook == IF kingside THEN board.castlings_.kingside_rook
                                  ELSE board.castlings_.queenside_rook
                          m == CastlingMove(board, rook)
                      IN  /\ MoveFrom(m) = board.our_king_
                          /\ MoveTo(m) = 8 * RANK_1 + rook
           /\ \A m \in Range(moves) : GetModernMove(board, GetLegacyMove(board, m)) = m

\* ------------------------------------------------------------ castling rights

\* The castling rights of b agree with its pieces: a right of the mover has the
\* mover's king on the first rank and a rook of the mover on the first-rank
\* square of the recorded file, and likewise for the opponent on the last rank.
RightsConsistent(b) ==
    LET c == b.castlings_
        ours(file) == /\ FlatRow(KingSquare(b)) = RANK_1
                      /\ At(b.rooks_ \cap b.our_pieces_, 8 * RANK_1 + file)
        theirs(file) == /\ FlatRow(Flat(b.their_king_)) = RANK_8
                        /\ At(b.rooks_ \cap b.their_pieces_, 8 * RANK_8 + file)
    IN  /\ c.we_can_00 => ours(c.kingside_rook)
        /\ c.we_can_000 => ours(c.queenside_rook)
        /\ c.they_can_00 => theirs(c.kingside_rook)
        /\ c.they_can_000 => theirs(c.queenside_rook)

\* The move applied last took a rook of the mover off the first-rank square of
\* the file, or landed on the last-rank square of the file.
RookLeftHome(file) ==
    /\ LastFrom = 8 * RANK_1 + file
    /\ At(prev.rooks_ \cap prev.our_pieces_, LastFrom)
    /\ ~IsKingMove(prev, last_move)
LandedOnRookHome(file) == LastTo = 8 * RANK_8 + file

\* C13: when a legal move is applied to a position with consistent castling
\* rights, a king move leaves the mover neither right, a rook leaving its home
\* square leaves the mover no right for that file, a move landing on the
\* opponent's rook home square leaves the opponent no right for that file, and
\* the rights that remain are consistent with the pieces.
C13_CastlingRightsRevoked ==
    (pc = "applied" /\ legal_play /\ RightsConsistent(prev))
        => LET c == board.castlings_
           IN  /\ IsKingMove(prev, last_move) => (~c.we_can_00 /\ ~c.we_can_000)
               /\ RookLeftHome(c.kingside_rook) => ~c.we_can_00
               /\ RookLeftHome(c.queenside_rook) => ~c.we_can_000
               /\ LandedOnRookHome(c.kingside_rook) => ~c.they_can_00
               /\ LandedOnRookHome(c.queenside_rook) => ~c.they_can_000
               /\ RightsConsistent(board)

\* ------------------------------------------------------- malformed board fields

\* The rows of a board field, the row (from 0) that holds character i, and the
\* columns the row has used up to and including character i.
NumRows(cs) == Cardinality({i \in 1..Len(cs) : cs[i] = "/"}) + 1
RowOf(cs, i) == Cardinality({j \in 1..(i - 1) : cs[j] = "/"})
RECURSIVE Columns(_, _)
Columns(cs, i) ==
    IF i = 0 \/ cs[i] = "/" THEN 0
    ELSE Columns(cs, i - 1) + (IF isdigit(cs[i]) THEN Ascii[cs[i]] - 48 ELSE 1)

PieceSymbols == {"P", "N", "B", "R", "Q", "K", "p", "n", "b", "r", "q", "k"}

TooManyRows(cs) == NumRows(cs) > 8
TooManyColumns(cs) == \E i \in 1..Len(cs) : Columns(cs, i) > 8
UnknownSymbol(cs) ==
    \E i \in 1..Len(cs) : cs[i] # "/" /\ ~isdigit(cs[i]) /\ cs[i] \notin PieceSymbols
PawnOnEndRank(cs) ==
    \E i \in 1..Len(cs) : cs[i] \in {"P", "p"} /\ RowOf(cs, i) \in {0, NumRows(cs) - 1}
MalformedBoard(cs) ==
    TooManyRows(cs) \/ TooManyColumns(cs) \/ UnknownSymbol(cs) \/ PawnOnEndRank(cs)

\* C14: SetFromFen throws for every board field with more than eight rows, a
\* row of more than eight columns, a symbol that is no piece, or a pawn on the
\* first or last rank; it never returns from such a string.
C14_MalformedBoardThrows ==
    (fen >= 1 /\ MalformedBoard(Fens[fen].board)) => pc = "threw"

\* C15: a SetFromFen call that throws on a position an earlier call has filled
\* leaves the piece sets, the king squares, the castling rights and the flipped
\* flag as they were before the call.
C15_FailedParseLeavesPosition ==
    [][(pc = "ready" /\ pc' = "threw") => board' = board]_vars

\* A rook (not a queen) of the given pieces stands on the square of the rank and
\* file, in whichever word.
HomeRook(b, pieces, rank, file) == At(RooksOnly(b) \cap pieces, 8 * rank + file)

\* C16: when SetFromFen returns, each castling right it has set has a rook of
\* that colour on that colour's home rank at the recorded rook file (a castling
\* symbol that names no rook makes it throw instead).
C16_RightsHaveRooks ==
    (pc = "ready" /\ ply = 0)
        => LET c == board.castlings_
           IN  /\ c.we_can_00 => HomeRook(board, board.our_pieces_, RANK_1, c.kingside_rook)
               /\ c.we_can_000 => HomeRook(board, board.our_pieces_, RANK_1, c.queenside_rook)
               /\ c.they_can_00 => HomeRook(board, board.their_pieces_, RANK_8, c.kingside_rook)
               /\ c.they_can_000 => HomeRook(board, board.their_pieces_, RANK_8, c.queenside_rook)

\* ------------------------------------------------------------ FEN round trip

\* C17: a valid FEN string that is parsed, written as FEN again and parsed
\* again gives the position of the first parse: the second parse returns, and
\* piece sets, king squares, side to move, castling rights and en-passant
\* marker are the same.
C17_FenRoundTrip ==
    (pc \in {"decoded", "decode threw"} /\ ~MalformedBoard(Fens[fen].board))
        => (pc = "decoded" /\ board = prev)

\* ---------------------------------------------------------------------- perft

\* The leaf positions below b at the given depth: every move GenerateLegalMoves
\* returns is applied to a copy, the copy is mirrored, and the leaves below it
\* are counted.
RECURSIVE Perft(_, _)
RECURSIVE PerftSum(_, _, _, _)
PerftSum(b, list, i, depth) ==
    IF i > Len(list) THEN 0
    ELSE Perft(BoardMirror(ApplyMove(b, list[i]).b), depth - 1) + PerftSum(b, list, i + 1, depth)
Perft(b, depth) ==
    IF depth = 0 THEN 1
    ELSE With(GenerateLegalMoves(b), LAMBDA list : PerftSum(b, list, 1, depth))

\* C18: the start position is built, and the leaf positions reached from it by
\* applying every legal move and mirroring, to depth 4, number 197,281.
C18_StartposPerft ==
    (fen >= 1 /\ Fens[fen] = kStartposFen /\ pc # "new")
        => (pc # "threw" /\ (pc = "ready" => Perft(board, 4) = 197281))

\* ------------------------------------------------------------------ BitBoard

\* The piece sets of the board, and the corner squares of the three layers.
BoardSets == {board.our_pieces_, board.their_pieces_, board.rooks_, board.bishops_, board.pawns_}
CornerSquares == {BoardSquare3(r, c, l) : r \in {RANK_1, RANK_8}, c \in {FILE_A, FILE_H}, l \in 0..2}

\* C19: for every bitboard b and squares s and t, t different from s: after
\* b.set(s), b.get(s) is true; after b.reset(s), b.get(s) is false; and get(t)
\* is the same after set(s) and after reset(s) as before.
C19_SetResetGet ==
    \A b \in BoardSets : \A s \in CornerSquares :
        /\ BBget(BBset(b, s), s)
        /\ ~BBget(BBreset(b, s), s)
        /\ \A t \in CornerSquares \ {s} :
              /\ BBget(BBset(b, s), t) = BBget(b, t)
              /\ BBget(BBreset(b, s), t) = BBget(b, t)

\* --------------------------------------------------------------- BoardSquare

\* C20: in every build, the square built from a row and a column in 0..7 has
\* an index in [0, 64), row() gives the row and col() the column it was built
\* from, and Mirror() maps it to the square built from row 7 - row and the same
\* column.
C20_SquareRowCol ==
    shl_wraps \in BOOLEAN
        => \A r \in 0..7 : \A c \in 0..7 :
              LET sq == BoardSquare2(r, c)
              IN  /\ sq \in 0..63
                  /\ row(sq) = r
                  /\ col(sq) = c
                  /\ SquareMirror(sq) = BoardSquare2(7 - r, c)

\* ----------------------------------------------------------------------- Move

\* The three fields of a Move.
Fields(m) == <<MoveFrom(m), MoveTo(m), MovePromotion(m)>>

\* C21: Move(from, to, p) has from() = from, to() = to and promotion() = p;
\* a Move equals Move(from, to, p) exactly when its three fields are from, to
\* and p; and SetTo, SetFrom and SetPromotion set their own field and leave the
\* other two as they were.
C21_MoveFields ==
    [][/\ \A from \in MoveSquares, to \in MoveSquares, promo \in Promotions :
            /\ MoveCall(from, to, promo) => Fields(mv') = <<from, to, promo>>
            /\ (mv' = Move3(from, to, promo)) <=> (Fields(mv') = <<from, to, promo>>)
       /\ \A to \in MoveSquares :
            SetToCall(to) => Fields(mv') = <<MoveFrom(mv), to, MovePromotion(mv)>>
       /\ \A from \in MoveSquares :
            SetFromCall(from) => Fields(mv') = <<from, MoveTo(mv), MovePromotion(mv)>>
       /\ \A promo \in Promotions :
            SetPromotionCall(promo) => Fields(mv') = <<MoveFrom(mv), MoveTo(mv), promo>>
      ]_vars

\* A knight promotion from square 63 to square 32 whose promotion was set last.
C21_Witness ==
    pc = "SetPromotion" /\ Fields(mv) = <<63, 32, PromoKnight>>

\* ------------------------------------------------------ sliding attack sets

\* The squares reached on the flat board by walking one direction from s until
\* the edge or the first occupied square, that square included.
RECURSIVE RayWalk(_, _, _, _, _)
RayWalk(r, c, dr, dc, occ) ==
    LET r1 == r + dr
        c1 == c + dc
        s1 == r1 * 8 + c1
    IN  IF r1 < 0 \/ r1 > 7 \/ c1 < 0 \/ c1 > 7 THEN {}
        ELSE IF s1 \in occ THEN {s1}
        ELSE {s1} \cup RayWalk(r1, c1, dr, dc, occ)

SlidingAttacks(s, directions, occ) ==
    UNION {RayWalk(FlatRow(s), FlatCol(s), directions[j][1], directions[j][2], occ) :
             j \in 1..4}

QuerySquares == {0, 27, 36, 63}

\* C22: once the tables are built, for every square and the occupancy of the
\* position, GetRookAttacks and GetBishopAttacks return exactly the squares
\* reached by walking the four orthogonal, resp. diagonal, directions until
\* the edge or the first occupied square, that square included.
C22_MagicAttacksAreRayWalks ==
    (magic_ready /\ pc = "ready") =>
        LET pieces == board.our_pieces_ \cup board.their_pieces_
        IN  \A s \in QuerySquares :
              /\ {Flat(t) : t \in GetRookAttacks(s, pieces)} =
                     SlidingAttacks(s, kRookDirections, Occupied(board))
              /\ {Flat(t) : t \in GetBishopAttacks(s, pieces)} =
                     SlidingAttacks(s, kBishopDirections, Occupied(board))

\* ------------------------------------------------------- concurrent queries

\* What the query of thread t returns when nothing runs beside it.
Sequential(q) ==
    IF q.kind = "rook" THEN GetRookAttacks(q.square, q.pieces)
    ELSE GetBishopAttacks(q.square, q.pieces)

\* C23: the magic parameters and attack tables are written by
\* InitializeMagicBitboards alone, no step of a query writes them, and every
\* query that runs interleaved with the queries of other threads returns what
\* it returns when run alone.
C23_TablesWrittenOnce ==
    [][/\ magic_ready' # magic_ready => (~magic_ready /\ thr' = thr)
       /\ \A t \in Threads :
            thr'[t].pc = "done" => thr'[t].attacks = Sequential(thr'[t])
      ]_vars

C23_Witness ==
    /\ thr[1].pc = "done" /\ thr[1].kind = "rook" /\ thr[1].pieces # EmptyBB
    /\ thr[2].pc = "index" /\ thr[2].kind = "bishop"

\* ------------------------------------------------------------ piece planes

\* The planes of one piece kind and side hold the whole set.
FullPlanes(planes, side, kind) == planes = side \cap kind

\* C24: for the one position parsed from a FEN and encoded in the classical
\* format, the three planes of every piece kind and side hold exactly the
\* squares of that side's pieces of that kind, layer by layer.
C24_PiecePlanesHoldFullSets ==
    (pc = "ready" /\ ply = 0) =>
        LET P == PiecePlanes(board)
            ours == board.our_pieces_
            theirs == board.their_pieces_
        IN  /\ FullPlanes(P.pawnsOurs, ours, pawns(board))
            /\ FullPlanes(P.knightsOurs, ours, knights(board))
            /\ FullPlanes(P.bishopOurs, ours, bishops(board))
            /\ FullPlanes(P.rookOurs, ours, RooksOnly(board))
            /\ FullPlanes(P.queenOurs, ours, queens(board))
            /\ FullPlanes(P.kingOurs, ours, kings(board))
            /\ FullPlanes(P.pawnsTheirs, theirs, pawns(board))
            /\ FullPlanes(P.knightsTheirs, theirs, knights(board))
            /\ FullPlanes(P.bishopTheirs, theirs, bishops(board))
            /\ FullPlanes(P.rookTheirs, theirs, RooksOnly(board))
            /\ FullPlanes(P.queenTheirs, theirs, queens(board))
            /\ FullPlanes(P.kingTheirs, theirs, kings(board))

\* -------------------------------------------------------- auxiliary planes

\* The position on the board is black to move: the FEN said so and an even
\* number of moves was made, or it said white and the number is odd.
BlackToMove == (Fens[fen].who_to_move \in {"b", "B"}) # (ply % 2 = 1)

OurPawns(b) == {s \in 8..55 : At(b.our_pieces_ \cap (b.pawns_ \cap kPawnMask), s)}

Emitted(list, from, to, promo) ==
    \E i \in 1..Len(list) : Fields(list[i]) = <<from, to, promo>>

EmittedPromotions(list, from, to) ==
    /\ \A promo \in {PromoQueen, PromoRook, PromoBishop, PromoKnight} :
          Cardinality({i \in 1..Len(list) : Fields(list[i]) = <<from, to, promo>>}) = 1
    /\ ~Emitted(list, from, to, PromoNone)

\* The en-passant target: the marker pawn_ bit on the last rank of the file.
EnPassantTarget(b, t) == FlatRow(t) = RANK_6 /\ At(b.pawns_, 56 + FlatCol(t))

\* C26: for every pawn of the mover GeneratePseudolegalMoves emits the single
\* push iff the square ahead is empty, the double push iff the pawn is on its
\* start rank and both squares are empty, a diagonal capture iff the square
\* holds an opponent piece or is the en-passant target, and on the farthest
\* rank the four promotions in place of the unpromoted move.
C26_PawnMoves ==
    pc = "ready" =>
        LET list == GeneratePseudolegalMoves(board)
            free(t) == t \notin Occupied(board)
            takes(t) == At(board.their_pieces_, t) \/ EnPassantTarget(board, t)
            lands(s, t, ok) ==
                IF FlatRow(t) = RANK_8
                THEN IF ok THEN EmittedPromotions(list, s, t)
                     ELSE \A promo \in Promotions : ~Emitted(list, s, t, promo)
                ELSE Emitted(list, s, t, PromoNone) <=> ok
        IN  \A s \in OurPawns(board) :
              /\ lands(s, s + 8, free(s + 8))
              /\ FlatRow(s) = RANK_1 + 1 =>
                   (Emitted(list, s, s + 16, PromoNone) <=> (free(s + 8) /\ free(s + 16)))
              /\ \A d \in {-1, 1} :
                   (FlatCol(s) + d \in 0..7) => lands(s, s + 8 + d, takes(s + 8 + d))

\* ------------------------------------------------------ piece set consistency

\* The inputs that are valid FEN strings of an 8x8 board: MateFen, StalemateFen,
\* BishopCheckFen, PinFen, RookFen, CastleFen, PawnFen, KingPawnFen.
ValidFens == {3, 4, 5, 6, 7, 8, 10, 11}

RealPawns(b) == b.pawns_ \cap kPawnMask

PieceSetsConsistent(b) ==
    LET occupied == b.our_pieces_ \cup b.their_pieces_
    IN  /\ b.our_pieces_ \cap b.their_pieces_ = {}
        /\ BBget(b.our_pieces_, b.our_king_)
        /\ BBget(b.their_pieces_, b.their_king_)
        /\ b.rooks_ \subseteq occupied
        /\ b.bishops_ \subseteq occupied
        /\ RealPawns(b) \subseteq occupied
        /\ RealPawns(b) \cap (b.rooks_ \cup b.bishops_) = {}
        /\ \A s \in RealPawns(b) : row(s) \notin {RANK_1, RANK_8}
        /\ \A k \in {b.our_king_, b.their_king_} :
             ~BBget(b.rooks_ \cup b.bishops_ \cup b.pawns_, k)

\* C27: in every position reached from a valid FEN by legal moves, each
\* ApplyMove followed by Mirror, the two sides are disjoint, each king stands
\* in its side's piece set, every rook, bishop and real pawn bit is on an
\* occupied square, real pawns are no rooks or bishops and stand on no end
\* rank, and no king square is in the rook, bishop or pawn set.
C27_PieceSetsConsistent ==
    (pc = "ready" /\ fen \in ValidFens /\ legal_play) => PieceSetsConsistent(board)

\* ------------------------------------------------------------ check detectors

\* C28: in every position reached by legal play from a valid FEN,
\* GenerateKingAttackInfo returns and reports in-check exactly when
\* IsUnderAttack(our king square) is true.
C28_CheckDetectorsAgree ==
    (pc = "ready" /\ fen \in ValidFens /\ legal_play) =>
        LET info == GenerateKingAttackInfo(board)
        IN  /\ ~info.hang
            /\ in_check(info) <=> IsUnderAttack(board, board.our_king_)

\* ------------------------------------------------------------ the move list

\* C29: the list of GeneratePseudolegalMoves holds no (from, to, promotion)
\* triple twice, no move with from = to and no null move.
C29_NoDuplicateMoves ==
    pc = "ready" =>
        LET list == GeneratePseudolegalMoves(board)
        IN  /\ \A i, j \in 1..Len(list) : Fields(list[i]) = Fields(list[j]) => i = j
            /\ \A i \in 1..Len(list) : MoveFrom(list[i]) # MoveTo(list[i]) /\ list[i] # 0

\* -------------------------------------------------------------------- Mirror

\* The square of the same layer and column on row 7 - row.
RowMirrored(s) == 64 * (s \div 64) + 8 * (7 - ((s % 64) \div 8)) + (s % 8)

RowMirroredSet(bb) == {RowMirrored(s) : s \in bb}

\* C30: Mirror makes our pieces and king the row-mirrored pieces and king of
\* the former opponent and vice versa, row-mirrors the rook, bishop and pawn
\* sets, exchanges the castling rights of the two sides and toggles flipped_;
\* a second call gives back every field.
C30_MirrorInvolution ==
    [][MirrorCall =>
         /\ board'.our_pieces_ = RowMirroredSet(board.their_pieces_)
         /\ board'.their_pieces_ = RowMirroredSet(board.our_pieces_)
         /\ board'.our_king_ = RowMirrored(board.their_king_)
         /\ board'.their_king_ = RowMirrored(board.our_king_)
         /\ board'.rooks_ = RowMirroredSet(board.rooks_)
         /\ board'.bishops_ = RowMirroredSet(board.bishops_)
         /\ board'.pawns_ = RowMirroredSet(board.pawns_)
         /\ board'.castlings_.we_can_00 = board.castlings_.they_can_00
         /\ board'.castlings_.we_can_000 = board.castlings_.they_can_000
         /\ board'.castlings_.they_can_00 = board.castlings_.we_can_00
         /\ board'.castlings_.they_can_000 = board.castlings_.we_can_000
         /\ board'.flipped_ = ~board.flipped_
         /\ BoardMirror(board') = board
      ]_vars

C30_Witness ==
    /\ pc = "ready"
    /\ ply > 0
    /\ board.their_king_ >= 64
    /\ board.our_pieces_ # {}
    /\ board.their_pieces_ # {}
    /\ board.castlings_.they_can_00
    /\ ~board.castlings_.we_can_00
    /\ BoardMirror(BoardMirror(board)) = board

============================================================================
